---- MODULE Spec2Model ----
(***************************************************************************)
(* Model of app/mcp_client.py (class MCPClient): the supervisor of child   *)
(* tool-server processes that talks line-delimited JSON-RPC over stdio.    *)
(*                                                                         *)
(* Caller threads execute the public operations step by step (one step per *)
(* group of statements between two points where another thread can         *)
(* observe or change the shared dictionaries); child processes and the     *)
(* output-reader tasks of the thread pool run concurrently with them.      *)
(***************************************************************************)
EXTENDS Naturals, Integers, Sequences, FiniteSets, TLC

(* ------------------------------ bounds --------------------------------- *)
\* caller threads of the concurrent specification
MaxThreads == 2
\* child processes spawned in one run with one server configured; every
\* further configured server allows one more
MaxProcs == 2
\* request ids allocated from one id counter
MaxId == 2
\* lines a child writes to stdout without having been asked
MaxEmit == 1
\* lines an OS pipe (to a child's stdin, from its stdout) holds before a
\* write() to it blocks
PipeCap == 1
\* messages a user of the client writes to one process with send_message
MaxSend == 2

(* ------------------------------ values --------------------------------- *)
\* line 51: ThreadPoolExecutor(max_workers=10), the pool of the reader tasks
max_workers == 10

Names == {"a", "b"}
Threads == 1..MaxThreads

\* a JSON field that is not there, and the JSON value null
Absent == "ABSENT"
JNull == "null"

\* Python's None, booleans and dictionaries as return values
RetNone == [kind |-> "none"]
RetBool(b) == [kind |-> "bool", val |-> b]
RetResp(r) == [kind |-> "resp", resp |-> r]
RetError(e) == [kind |-> "error", err |-> e]
RetValue(v) == [kind |-> "value", val |-> v]
RetMap(m) == [kind |-> "map", val |-> m]

\* a line of output: its shape is "object" for the text of a JSON object,
\* "array" or "scalar" for other JSON, "malformed" for broken JSON and "text"
\* for anything else; hasid, result and error say what the text holds under
\* "id", "result" and "error"
Shaped(shape, hasid, i, res, err) ==
    [shape |-> shape, hasid |-> hasid, id |-> i, result |-> res, error |-> err]
Line(j, hasid, i, res, err) ==
    Shaped(IF j THEN "object" ELSE "text", hasid, i, res, err)
TextLine == Line(FALSE, FALSE, 0, Absent, Absent)
Response(i, res, err) == Line(TRUE, TRUE, i, res, err)

Put(f, k, v) == [x \in (DOMAIN f) \cup {k} |-> IF x = k THEN v ELSE f[x]]
\* Pop removing nothing
Pop_KeepsEntry(f, k) == f

Pop(f, k) == [x \in (DOMAIN f) \ {k} |-> f[x]]

(* ------------------------------ state ---------------------------------- *)
VARIABLES
    servers,           \* self.servers: name -> MCPServerConfig
    active_processes,  \* self.active_processes: name -> process (a pid)
    response_queues,   \* self.response_queues: name -> Queue object
    id_counters,       \* self._id_counters: name -> itertools.count object
    counter_locks,     \* self._counter_locks: name -> Lock object
    shutdown_event,    \* self._shutdown_event
    executor_shutdown, \* self.executor no longer accepts tasks
    procs,             \* every process spawned so far, and the objects made for it
    th,                \* the caller threads
    outcome            \* history: per name, the last start or stop that returned True

vars == <<servers, active_processes, response_queues, id_counters, counter_locks,
          shutdown_event, executor_shutdown, procs, th, outcome>>

shared == <<servers, active_processes, response_queues, id_counters, counter_locks,
            shutdown_event, executor_shutdown, procs>>

\* A field of a configuration source, as the loaders see it: left out, given
\* as null (None), or given with a value. val is of the type of the field in
\* all three cases.
Omitted(v0) == [given |-> FALSE, null |-> FALSE, val |-> v0]
NullOf(v0) == [given |-> TRUE, null |-> TRUE, val |-> v0]
Given(v) == [given |-> TRUE, null |-> FALSE, val |-> v]

\* dict.get(key, default) and os.environ.get(key, default)
Get(x, d) == IF x.given THEN x ELSE d

\* lines 35-41, __post_init__: an args, env or tools that is None becomes empty
PostInit(x, empty) == IF x.null THEN empty ELSE x.val

\* lines 25-41: the dataclass; a field not passed to the constructor is None
\* (lines 29-32), command and node_modules_path stay as they are passed. The
\* name is the key the configuration is stored under (lines 116, 152); env is
\* written as the set of its "KEY=value" items.
ServerConfigOf(command, args, env, node_modules_path, tools) ==
    [command |-> IF command.null THEN JNull ELSE command.val,
     args |-> PostInit(Get(args, NullOf(<<>>)), <<>>),
     env |-> PostInit(Get(env, NullOf({})), {}),
     node_modules_path |-> IF Get(node_modules_path, NullOf("")).null THEN JNull
                           ELSE node_modules_path.val,
     tools |-> PostInit(Get(tools, NullOf(<<>>)), <<>>)]

\* the configuration the tests build: a command and, where declared, tools
MCPServerConfig(cmd, tools) ==
    ServerConfigOf(Given(cmd), Omitted(<<>>), Omitted({}), Omitted(""), Given(tools))

\* A spawned process p = index into procs. The Queue and the itertools.count
\* that the spawning start_server call creates are kept with it (chan, ctr):
\* the dictionaries hold references to them, written as the pid.
NewProc(n, mode) ==
    [name |-> n, mode |-> mode, alive |-> TRUE, sigterm |-> FALSE,
     stdin |-> <<>>, stdout |-> <<>>, stderr |-> <<>>, emitted |-> 0, sent |-> 0,
     rdout |-> "none",
     chan |-> <<>>, ctr |-> 1]

IdleThread ==
    [pc |-> "idle", op |-> "none", name |-> "a", method |-> "ping",
     process |-> 0, q |-> 0, req_id |-> 0, clean |-> FALSE, todo |-> {},
     found |-> {}, args |-> <<>>, results |-> <<>>, response |-> RetNone,
     ret |-> RetNone, site |-> 0]

\* The commands of the configured servers: "echo" is the echo script of the
\* test suite (every request comes back as the result of a same-id response);
\* "chatty" echoes too and also writes lines nobody asked for; "faulty"
\* answers with an error, with both fields or with a null result, or not at all.
Commands == {"echo", "chatty", "faulty"}

InitWith(T, C) ==
    /\ \E cmd \in C : servers = [n \in {"a"} |-> MCPServerConfig(cmd, <<>>)]
    /\ active_processes = <<>>
    /\ response_queues = <<>>
    /\ id_counters = <<>>
    /\ counter_locks = <<>>
    /\ shutdown_event = FALSE
    /\ executor_shutdown = FALSE
    /\ procs = <<>>
    /\ th = [t \in T |-> IdleThread]
    /\ outcome = [n \in Names |-> "none"]

\* one caller: each operation is called after the previous one has returned
Init == InitWith({1}, Commands)

Pids == DOMAIN procs

list_active_servers == DOMAIN active_processes

(* --------------------------- caller threads ---------------------------- *)
\* a call of operation op begins: the locals of the previous call are gone
Enter(t, op, n, m) ==
    [IdleThread EXCEPT !.op = op, !.name = n, !.method = m]

\* where a thread goes on after the return of the start_server or stop_server
\* it called: in the loop of shutdown (line 450), start_all_servers (251) or
\* stop_all_servers (291), or in the caller of the client
LoopOf(op) ==
    CASE op = "shutdown" -> "shut_loop"
      [] op = "start_all" -> "start_all_loop"
      [] op = "stop_all" -> "stop_all_loop"
      [] op = "refresh" -> "refresh_store"
      [] OTHER -> "idle"

\* `return v` at source line s: the locals of the call are gone, its
\* arguments and its outcome stay visible; a loop that made the call goes on,
\* start_all_servers and stop_all_servers with results[name] = v (252, 292)
Returned(rec, v, s) ==
    [rec EXCEPT !.pc = LoopOf(rec.op),
                !.process = 0, !.q = 0, !.req_id = 0, !.clean = FALSE,
                !.results = IF rec.op \in {"start_all", "stop_all"}
                            THEN Put(@, rec.name, v.val) ELSE @,
                !.ret = v, !.site = s]

SetTh(t, rec) == th' = [th EXCEPT ![t] = rec]

\* the history after the step that leaves its thread in state rec: a return
\* of True from start_server (lines 172, 213) or stop_server (263, 282) is
\* recorded for the name of the call
Noted(rec) ==
    IF rec.pc \in {"idle", "shut_loop", "start_all_loop", "stop_all_loop"}
       /\ rec.ret = RetBool(TRUE)
    THEN [outcome EXCEPT ![rec.name] = IF rec.site \in {172, 213} THEN "started"
                                                                 ELSE "stopped"]
    ELSE outcome

SetProc(p, rec) == procs' = [procs EXCEPT ![p] = rec]

\* Python frees a Queue or counter that neither a dictionary nor a thread
\* inside rpc_request refers to any more: P without the contents of those,
\* for the dictionaries RQ and IC and the threads TH
Collect(P, RQ, IC, TH) ==
    LET held == {RQ[n] : n \in DOMAIN RQ} \cup
                {TH[t].q : t \in {u \in DOMAIN TH : TH[u].pc \in {"rpc_send", "rpc_wait"}}}
        counting == {IC[n] : n \in DOMAIN IC}
    IN  [p \in DOMAIN P |->
            [P[p] EXCEPT !.chan = IF p \in held THEN @ ELSE <<>>,
                         !.ctr = IF p \in counting THEN @ ELSE 1]]

\* a process that has exited: its stdin and pending signal are gone with it;
\* what it wrote stays in the stdout pipe
Exited(rec) ==
    [rec EXCEPT !.alive = FALSE, !.sigterm = FALSE, !.stdin = <<>>, !.emitted = 0]

(* ---- load_servers_from_json, load_servers_from_env ---- *)
\* list_servers() (line 418) gives the names in the order the configurations
\* were loaded in, which is taken to be this one; the entries of a file are
\* in this order too (servers_data.items(), line 142)
LoadOrder == <<"a", "b", "c", "d", "e", "f">>

\* An entry of the "servers" object of a configuration file: its five fields
JsonEntry(command, args, env, node_modules_path, tools) ==
    [command |-> command, args |-> args, env |-> env,
     node_modules_path |-> node_modules_path, tools |-> tools]

\* the entries of the files: the two of test_default_config_lookup
\* (test_mcp_client.py, lines 257-283; the first one with declared tools, the
\* second one with a node_modules_path), an empty entry, and one whose
\* optional fields are null
JsonEntries ==
    {JsonEntry(Given("echo"), Given(<<"from-home">>), Given({"HOME_ONLY=1"}),
               Omitted(""), Given(<<"tool_a">>)),
     JsonEntry(Given("printf"), Given(<<"from-local">>), Given({"LOCAL_OVERRIDE=1"}),
               Given("/local/node_modules"), Omitted(<<>>)),
     JsonEntry(Omitted(""), Omitted(<<>>), Omitted({}), Omitted(""), Omitted(<<>>)),
     JsonEntry(Given("echo"), NullOf(<<>>), NullOf({}), NullOf(""), NullOf(<<>>))}

\* an entry that is no object: a string, a number, a list or null
BadEntry == [shape |-> "string"]

\* the entry has a get method (lines 145-149)
IsObject(e) == e # BadEntry

\* what open() and json.load find at a path: no file, a file that does not
\* parse, a file that parses to something else than an object with an object
\* under "servers", or an object whose "servers" maps names to entries
JsonFiles ==
    {[kind |-> k, servers |-> <<>>] : k \in {"missing", "invalid", "badtop"}}
        \cup {[kind |-> "ok", servers |-> m] :
                 m \in UNION {[S -> JsonEntries \cup {BadEntry}] : S \in SUBSET Names}}

\* lines 143-150: the configuration built from an entry of a file
FromJson(e) ==
    ServerConfigOf(Get(e.command, Given("")), Get(e.args, Given(<<>>)),
                   Get(e.env, Given({})), Get(e.node_modules_path, NullOf("")),
                   Get(e.tools, Given(<<>>)))

\* the place of a name in the order of the entries
Place(n) == CHOOSE i \in DOMAIN LoadOrder : LoadOrder[i] = n

\* lines 140 and 145: AttributeError, which no except clause of lines 155-158
\* catches: config_data or servers_data is no dict, or an entry is none
JsonRaises(file) ==
    \/ file.kind = "badtop"
    \/ file.kind = "ok" /\ \E n \in DOMAIN file.servers : ~IsObject(file.servers[n])

\* line 142: the entries the loop gets through, those before the first one
\* that is no object
Reached(file) ==
    {n \in DOMAIN file.servers :
        \A m \in DOMAIN file.servers : Place(m) <= Place(n) => IsObject(file.servers[m])}

\* lines 136-158: the configurations after load_servers_from_json has read
\* file; a missing or unparseable file changes nothing (155-158)
JsonLoaded(S, file) ==
    IF file.kind # "ok" THEN S
    ELSE [n \in DOMAIN S \cup Reached(file) |->
            IF n \in Reached(file) THEN FromJson(file.servers[n]) ELSE S[n]]

\* The text of an environment variable that holds JSON: json says whether
\* json.loads accepts it, parsed is what it yields
JsonText(json, parsed) == [json |-> json, parsed |-> parsed]

\* lines 92-105: json.loads of the variable, or of the default text when it
\* is not set; text that does not parse gives the empty value
Parsed(var, empty) ==
    LET text == Get(var, Given(JsonText(TRUE, Given(empty)))).val
    IN  IF text.json THEN text.parsed ELSE Given(empty)

\* the variables MCP_SERVER_{NAME}_COMMAND, _ARGS, _ENV, _NODE_MODULES
EnvEntry(command, args, env, node_modules) ==
    [command |-> command, args |-> args, env |-> env, node_modules |-> node_modules]

\* the variables of one server: none, an empty command, all four, the
\* command alone, texts that are no JSON, texts that are the JSON null
EnvEntries ==
    {EnvEntry(Omitted(""), Omitted(JsonText(FALSE, Given(<<>>))),
              Omitted(JsonText(FALSE, Given({}))), Omitted("")),
     EnvEntry(Given(""), Given(JsonText(TRUE, Given(<<"from-env">>))),
              Omitted(JsonText(FALSE, Given({}))), Omitted("")),
     EnvEntry(Given("node"), Given(JsonText(TRUE, Given(<<"from-env">>))),
              Given(JsonText(TRUE, Given({"ENV_ONLY=1"}))), Given("/env/node_modules")),
     EnvEntry(Given("node"), Omitted(JsonText(FALSE, Given(<<>>))),
              Omitted(JsonText(FALSE, Given({}))), Omitted("")),
     EnvEntry(Given("node"), Given(JsonText(FALSE, Given(<<>>))),
              Given(JsonText(FALSE, Given({}))), Omitted("")),
     EnvEntry(Given("node"), Given(JsonText(TRUE, NullOf(<<>>))),
              Given(JsonText(TRUE, NullOf({}))), Omitted(""))}

\* os.environ: the names MCP_SERVERS lists and the variables of each name
Environs == [names : SUBSET Names, vars : [Names -> EnvEntries]]

\* NoCommand taking an empty command for a command
NoCommand_EmptyIsCommand(v) == ~v.command.given

\* lines 86-89: `if not command`, the variable is not set or is empty
NoCommand(v) == ~v.command.given \/ v.command.val = ""

\* lines 91-114: the configuration built from the variables of one server;
\* no tools are passed
FromEnv(v) ==
    ServerConfigOf(v.command, Parsed(v.args, <<>>), Parsed(v.env, {}),
                   Get(v.node_modules, NullOf("")), Omitted(<<>>))

\* EnvLoaded leaving the declared tools of a server that is configured already
EnvLoaded_KeepsTools(S, e) ==
    [n \in DOMAIN S \cup {m \in e.names : ~NoCommand(e.vars[m])} |->
        IF n \in e.names /\ ~NoCommand(e.vars[n])
        THEN IF n \in DOMAIN S
             THEN [FromEnv(e.vars[n]) EXCEPT !.tools = S[n].tools]
             ELSE FromEnv(e.vars[n])
        ELSE S[n]]

\* lines 57-118: the configurations after load_servers_from_env; a listed
\* name without a command is skipped (86-89)
EnvLoaded(S, e) ==
    [n \in DOMAIN S \cup {m \in e.names : ~NoCommand(e.vars[m])} |->
        IF n \in e.names /\ ~NoCommand(e.vars[n])
        THEN FromEnv(e.vars[n])
        ELSE S[n]]

\* an exception leaves the call
Raised == [kind |-> "raise"]

\* a load is over, by returning None or by an exception at line s: the thread
\* keeps the configured names the call found
Loaded(t, op, v, s) ==
    SetTh(t, [Returned(Enter(t, op, "a", "ping"), v, s) EXCEPT
                 !.found = DOMAIN servers])

\* the line load_servers_from_json ends at
JsonSite(file) ==
    CASE file.kind = "missing" -> 156
      [] file.kind = "invalid" -> 158
      [] file.kind = "badtop" -> 140
      [] JsonRaises(file) -> 145
      [] OTHER -> 153

load_servers_from_json(t, file) ==
    /\ th[t].pc = "idle"
    /\ servers' = JsonLoaded(servers, file)
    /\ Loaded(t, "load_json", IF JsonRaises(file) THEN Raised ELSE RetNone,
              JsonSite(file))
    /\ UNCHANGED <<active_processes, response_queues, id_counters, counter_locks,
                   shutdown_event, executor_shutdown, procs>>
    /\ UNCHANGED outcome

\* the thread keeps what the environment held
load_servers_from_env(t, e) ==
    /\ th[t].pc = "idle"
    /\ servers' = EnvLoaded(servers, e)
    /\ SetTh(t, [Returned(Enter(t, "load_env", "a", "ping"), RetNone,
                          IF e.names = {} THEN 73 ELSE 78)
                    EXCEPT !.found = DOMAIN servers, !.args = <<e>>])
    /\ UNCHANGED <<active_processes, response_queues, id_counters, counter_locks,
                   shutdown_event, executor_shutdown, procs>>
    /\ UNCHANGED outcome

(* ---- initialize_mcp_client ---- *)
\* the file with the entry `entry` for each name of S
FileOf(S, entry) == [kind |-> "ok", servers |-> [n \in S |-> entry]]

NoFile == [kind |-> "missing", servers |-> <<>>]

\* ~/.mcp-group/mcp_config.json (line 480): not there, or a file with the
\* first entry of the test for some names
HomeFiles ==
    {NoFile} \cup
    {FileOf(S, JsonEntry(Given("echo"), Given(<<"from-home">>), Given({"HOME_ONLY=1"}),
                         Omitted(""), Given(<<"tool_a">>))) : S \in SUBSET Names}

\* ./mcp_config.json (line 481): one that does not parse, one that parses to
\* a list, or a file with the second entry of the test for some names
LocalFiles ==
    {[kind |-> k, servers |-> <<>>] : k \in {"invalid", "badtop"}} \cup
    {FileOf(S, JsonEntry(Given("printf"), Given(<<"from-local">>),
                         Given({"LOCAL_OVERRIDE=1"}), Given("/local/node_modules"),
                         Omitted(<<>>))) : S \in SUBSET Names}

\* the config_path argument (line 466): None, or the path of a file with an
\* entry that has a command alone
ExplicitFiles ==
    {[kind |-> "none", servers |-> <<>>]} \cup
    {FileOf(S, JsonEntry(Given("cat"), Omitted(<<>>), Omitted({}), Omitted(""),
                         Omitted(<<>>))) : S \in SUBSET Names}

\* os.environ: each name is not listed, listed without a command, or listed
\* with all four variables
InitEnvirons ==
    {e \in Environs :
        \A n \in Names :
            /\ e.vars[n].command.given => e.vars[n].command.val # ""
            /\ e.vars[n].command.given => e.vars[n].node_modules.given
            /\ ~e.vars[n].command.given => n \in e.names}

\* lines 479-489: the default paths, then config_path `if config_path`, each
\* loaded in turn
RECURSIVE LoadedInTurn(_, _)
LoadedInTurn(S, paths) ==
    IF paths = <<>> THEN S
    ELSE IF JsonRaises(Head(paths)) THEN JsonLoaded(S, Head(paths))
    ELSE LoadedInTurn(JsonLoaded(S, Head(paths)), Tail(paths))

\* line 489: the exception of a load leaves initialize_mcp_client too
InitRaises(paths) == \E i \in DOMAIN paths : JsonRaises(paths[i])

\* InitPaths with the explicit path before the default ones
InitPaths_ExplicitFirst(home, local, explicit) ==
    (IF explicit.kind # "none" THEN <<explicit>> ELSE <<>>) \o <<home, local>>

\* lines 479-486: default_paths, with config_path appended when it is given
InitPaths(home, local, explicit) ==
    <<home, local>> \o (IF explicit.kind # "none" THEN <<explicit>> ELSE <<>>)

\* lines 466-497 with autostart=False: the client loads the files, then the
\* environment, and is returned; the thread keeps its arguments and what the
\* paths and the environment held
initialize_mcp_client(t, home, local, explicit, e) ==
    /\ th[t].pc = "idle"
    /\ LET paths == InitPaths(home, local, explicit)
       IN  IF InitRaises(paths)
           THEN /\ servers' = LoadedInTurn(servers, paths)
                /\ SetTh(t, [Returned(Enter(t, "initialize", "a", "ping"), Raised, 489)
                                EXCEPT !.found = DOMAIN servers,
                                       !.args = <<home, local, explicit, e>>])
           ELSE /\ servers' = EnvLoaded(LoadedInTurn(servers, paths), e)
                /\ SetTh(t, [Returned(Enter(t, "initialize", "a", "ping"), RetNone, 497)
                                EXCEPT !.found = DOMAIN servers,
                                       !.args = <<home, local, explicit, e>>])
    /\ UNCHANGED <<active_processes, response_queues, id_counters, counter_locks,
                   shutdown_event, executor_shutdown, procs>>
    /\ UNCHANGED outcome

(* ---- start_server ---- *)
\* StartOutcome without the test of line 170
StartOutcome_NoRunningCheck(n) ==
    IF n \notin DOMAIN servers THEN "unconfigured" ELSE "spawn"

\* lines 166-172: the two membership tests that end the call early
StartOutcome(n) ==
    IF n \notin DOMAIN servers THEN "unconfigured"
    ELSE IF n \in DOMAIN active_processes THEN "running"
    ELSE "spawn"

\* StartEntry reporting success for a name that is not configured
StartEntry_UnconfiguredTrue(rec, n) ==
    LET r == [rec EXCEPT !.name = n]
        out == StartOutcome(n)
    IN  CASE out = "unconfigured" -> Returned(r, RetBool(TRUE), 168)
          [] out = "running" -> Returned(r, RetBool(TRUE), 172)
          [] OTHER -> [r EXCEPT !.pc = "start_spawn"]

\* lines 166-174 of start_server(n), called by the thread in state rec
StartEntry(rec, n) ==
    LET r == [rec EXCEPT !.name = n]
        out == StartOutcome(n)
    IN  CASE out = "unconfigured" -> Returned(r, RetBool(FALSE), 168)
          [] out = "running" -> Returned(r, RetBool(TRUE), 172)
          [] OTHER -> [r EXCEPT !.pc = "start_spawn"]

StartCheck(t, n) ==
    /\ th[t].pc = "idle"
    /\ SetTh(t, StartEntry(Enter(t, "start", n, "ping"), n))
    /\ UNCHANGED shared
    /\ outcome' = Noted(th'[t])

\* StartFailed letting the exception through to the caller
StartFailed_Raises(rec) == Returned(rec, [kind |-> "raise", val |-> FALSE], 217)

\* lines 215-217: an exception raised in the try block becomes `return False`
StartFailed(rec) == Returned(rec, RetBool(FALSE), 217)

\* lines 188-199 and 215-217: subprocess.Popen raises, or yields a process
StartSpawn(t) ==
    /\ th[t].pc = "start_spawn"
    /\ \/ /\ SetTh(t, StartFailed(th[t]))
          /\ UNCHANGED shared
       \/ /\ Len(procs) < MaxProcs + Cardinality(DOMAIN servers) - 1
          /\ procs' = Append(procs, NewProc(th[t].name, servers[th[t].name].command))
          /\ SetTh(t, [th[t] EXCEPT !.pc = "start_reg", !.process = Len(procs) + 1])
          /\ UNCHANGED <<servers, active_processes, response_queues, id_counters,
                         counter_locks, shutdown_event, executor_shutdown>>
    /\ UNCHANGED outcome

\* line 201
StartRegister(t) ==
    /\ th[t].pc = "start_reg"
    /\ active_processes' = Put(active_processes, th[t].name, th[t].process)
    /\ SetTh(t, [th[t] EXCEPT !.pc = "start_submit"])
    /\ UNCHANGED <<servers, response_queues, id_counters, counter_locks,
                   shutdown_event, executor_shutdown, procs>>
    /\ UNCHANGED outcome

\* The stderr reader of p (lines 316-317: it only logs) runs from the start of
\* the reader tasks of p until its stream is at end-of-file or the event is set.
StderrReaderRunning(p) ==
    /\ procs[p].rdout \in {"running", "done"}
    /\ procs[p].alive \/ procs[p].stderr # <<>>
    /\ ~shutdown_event

\* the workers of the pool that are running a reader task
Busy ==
    Cardinality({p \in Pids : procs[p].rdout = "running"}) +
    Cardinality({p \in Pids : StderrReaderRunning(p)})

\* a task submitted to the executor starts when one of its max_workers
\* workers is free, and waits in the executor's queue until then; the two
\* tasks of a process, submitted together, are taken to start together
Submitted == IF Busy < max_workers THEN "running" ELSE "queued"

\* lines 204-206: executor.submit raises RuntimeError once the executor was
\* shut down, which the except clause of lines 215-217 turns into False.
\* Both reader tasks are submitted; rdout is the state of the stdout reader
StartSubmit(t) ==
    /\ th[t].pc = "start_submit"
    /\ IF executor_shutdown
       THEN /\ SetTh(t, StartFailed(th[t]))
            /\ UNCHANGED procs
       ELSE /\ SetProc(th[t].process, [procs[th[t].process] EXCEPT !.rdout = Submitted])
            /\ SetTh(t, [th[t] EXCEPT !.pc = "start_init"])
    /\ UNCHANGED <<servers, active_processes, response_queues, id_counters,
                   counter_locks, shutdown_event, executor_shutdown>>
    /\ UNCHANGED outcome

\* lines 208-213: the new Queue, count(1) and Lock are those kept with the process
StartInit(t) ==
    /\ th[t].pc = "start_init"
    /\ response_queues' = Put(response_queues, th[t].name, th[t].process)
    /\ id_counters' = Put(id_counters, th[t].name, th[t].process)
    /\ counter_locks' = Put(counter_locks, th[t].name, th[t].process)
    /\ SetTh(t, Returned(th[t], RetBool(TRUE), 213))
    /\ procs' = Collect(procs, response_queues', id_counters', th')
    /\ UNCHANGED <<servers, active_processes, shutdown_event, executor_shutdown>>
    /\ outcome' = Noted(th'[t])

(* ---- stop_server ---- *)
\* lines 261-263: stop_server has nothing to do for name n
NotRunning(n) == n \notin DOMAIN active_processes

\* StopEntry reporting a server that is not running as a failure
StopEntry_NotRunningFails(rec, n) ==
    IF NotRunning(n)
    THEN Returned([rec EXCEPT !.name = n], RetBool(FALSE), 263)
    ELSE [rec EXCEPT !.name = n, !.pc = "stop_wait", !.process = active_processes[n]]

\* lines 261-268 of stop_server(n), called by the thread in state rec: the
\* early return, or the thread holding the process it has sent SIGTERM to
StopEntry(rec, n) ==
    IF NotRunning(n)
    THEN Returned([rec EXCEPT !.name = n], RetBool(TRUE), 263)
    ELSE [rec EXCEPT !.name = n, !.pc = "stop_wait", !.process = active_processes[n]]

\* Terminated sending no signal
Terminated_NoSignal(P, n) == P

\* line 268, process.terminate(): a signal to a process that has not exited
Terminated(P, n) ==
    IF NotRunning(n) THEN P
    ELSE [P EXCEPT ![active_processes[n]].sigterm = P[active_processes[n]].alive]

StopCheck(t, n) ==
    /\ th[t].pc = "idle"
    /\ SetTh(t, StopEntry(Enter(t, "stop", n, "ping"), n))
    /\ procs' = Terminated(procs, n)
    /\ UNCHANGED <<servers, active_processes, response_queues, id_counters,
                   counter_locks, shutdown_event, executor_shutdown>>
    /\ outcome' = Noted(th'[t])

\* lines 270-278: wait(timeout=5) returns once the process has exited; while
\* it has not, the timeout can expire, and kill() then wait() follow. Then
\* the del, which raises KeyError when the entry is gone (lines 284-286)
StopWait(t) ==
    /\ th[t].pc = "stop_wait"
    /\ LET p == th[t].process
       IN  IF procs[p].alive
           THEN SetProc(p, Exited(procs[p]))
           ELSE UNCHANGED procs
    /\ IF th[t].name \in DOMAIN active_processes
       THEN /\ active_processes' = Pop(active_processes, th[t].name)
            /\ SetTh(t, [th[t] EXCEPT !.pc = "stop_pop"])
       ELSE /\ UNCHANGED active_processes
            /\ SetTh(t, Returned(th[t], RetBool(FALSE), 286))
    /\ UNCHANGED <<servers, response_queues, id_counters, counter_locks,
                   shutdown_event, executor_shutdown>>
    /\ UNCHANGED outcome

\* lines 279-282
StopPop(t) ==
    /\ th[t].pc = "stop_pop"
    /\ response_queues' = Pop(response_queues, th[t].name)
    /\ id_counters' = Pop(id_counters, th[t].name)
    /\ SetTh(t, Returned(th[t], RetBool(TRUE), 282))
    /\ procs' = Collect(procs, response_queues', id_counters', th')
    /\ UNCHANGED <<servers, active_processes, counter_locks, shutdown_event,
                   executor_shutdown>>
    /\ outcome' = Noted(th'[t])

\* line 268 and lines 284-286: process.terminate() raises (the signal may not
\* be sent, PermissionError), which the except clause turns into False; no
\* signal has gone out and nothing is removed
StopTerminateRaises(t, n) ==
    /\ th[t].pc = "idle"
    /\ ~NotRunning(n)
    /\ SetTh(t, Returned(Enter(t, "stop", n, "ping"), RetBool(FALSE), 286))
    /\ UNCHANGED shared
    /\ UNCHANGED outcome

\* StopWaitRaises removing the handle all the same
StopWaitRaises_DropsHandle(t) ==
    /\ th[t].pc = "stop_wait"
    /\ th[t].op = "stop"
    /\ SetTh(t, Returned(th[t], RetBool(FALSE), 286))
    /\ active_processes' = Pop(active_processes, th[t].name)
    /\ UNCHANGED <<servers, response_queues, id_counters, counter_locks,
                   shutdown_event, executor_shutdown, procs>>
    /\ UNCHANGED outcome

\* lines 270-275 and 284-286: wait() or kill() raises something other than
\* TimeoutExpired after the signal was sent; the del of line 277 is not reached
StopWaitRaises(t) ==
    /\ th[t].pc = "stop_wait"
    /\ th[t].op = "stop"
    /\ SetTh(t, Returned(th[t], RetBool(FALSE), 286))
    /\ UNCHANGED shared
    /\ UNCHANGED outcome


(* ---- start_all_servers, stop_all_servers ---- *)

\* the name of S that comes first in that order
FirstLoaded(S) ==
    LoadOrder[CHOOSE i \in DOMAIN LoadOrder :
                 /\ LoadOrder[i] \in S
                 /\ \A j \in DOMAIN LoadOrder : LoadOrder[j] \in S => i <= j]

\* lines 250-251: results = {}, and the names list_servers() returns
StartAllBegin(t) ==
    /\ th[t].pc = "idle"
    /\ SetTh(t, [Enter(t, "start_all", "a", "ping") EXCEPT
                    !.pc = "start_all_loop", !.todo = DOMAIN servers])
    /\ UNCHANGED shared
    /\ UNCHANGED outcome

\* StartAllLoop giving up at the first server that did not start
StartAllLoop_StopsAtFalse(t) ==
    /\ th[t].pc = "start_all_loop"
    /\ IF th[t].todo = {} \/ \E n \in DOMAIN th[t].results : ~th[t].results[n]
       THEN SetTh(t, [th[t] EXCEPT !.pc = "idle", !.ret = RetMap(th[t].results),
                                   !.site = 253])
       ELSE LET n == FirstLoaded(th[t].todo)
            IN  SetTh(t, StartEntry([th[t] EXCEPT !.todo = @ \ {n}], n))
    /\ UNCHANGED shared
    /\ outcome' = Noted(th'[t])

\* lines 251-253: the next start_server call of the loop, or `return results`
StartAllLoop(t) ==
    /\ th[t].pc = "start_all_loop"
    /\ IF th[t].todo = {}
       THEN SetTh(t, [th[t] EXCEPT !.pc = "idle", !.ret = RetMap(th[t].results),
                                   !.site = 253])
       ELSE LET n == FirstLoaded(th[t].todo)
            IN  SetTh(t, StartEntry([th[t] EXCEPT !.todo = @ \ {n}], n))
    /\ UNCHANGED shared
    /\ outcome' = Noted(th'[t])

\* lines 290-291: results = {}, and the names that are active now
StopAllBegin(t) ==
    /\ th[t].pc = "idle"
    /\ SetTh(t, [Enter(t, "stop_all", "a", "ping") EXCEPT
                    !.pc = "stop_all_loop", !.todo = DOMAIN active_processes])
    /\ UNCHANGED shared
    /\ UNCHANGED outcome

\* lines 291-293: the next stop_server call of the loop, or `return results`
StopAllLoop(t) ==
    /\ th[t].pc = "stop_all_loop"
    /\ IF th[t].todo = {}
       THEN /\ SetTh(t, [th[t] EXCEPT !.pc = "idle", !.ret = RetMap(th[t].results),
                                      !.site = 293])
            /\ UNCHANGED procs
       ELSE \E n \in th[t].todo :
               /\ SetTh(t, StopEntry([th[t] EXCEPT !.todo = @ \ {n}], n))
               /\ procs' = Terminated(procs, n)
    /\ UNCHANGED <<servers, active_processes, response_queues, id_counters,
                   counter_locks, shutdown_event, executor_shutdown>>
    /\ outcome' = Noted(th'[t])

(* ---- rpc_request, send_message, call_tool ---- *)
\* Request with another method than the one asked for
Request_WrongMethod(i, m) == [id |-> i, method |-> "tools/list"]

\* lines 372-377: the message rpc_request builds
Request(i, m) == [id |-> i, method |-> m]

\* lines 359 and 363-368: the name is active and its queue, counter and lock exist
RpcReady(n) ==
    /\ n \in DOMAIN active_processes
    /\ n \in DOMAIN response_queues
    /\ n \in DOMAIN id_counters
    /\ n \in DOMAIN counter_locks

\* line 361 or 368: which return statement ends an unready call
RpcFailSite(n) == IF n \notin DOMAIN active_processes THEN 361 ELSE 368

\* CallToolResult without the test of line 408: `'error' in None` raises
CallToolResult_NoNoneCheck(v) ==
    IF v.kind = "none" THEN [kind |-> "raise"]
    ELSE IF v.resp.error # Absent THEN RetError(v.resp.error)
    ELSE IF v.resp.result = Absent THEN v
    ELSE IF v.resp.result = JNull THEN RetNone
    ELSE RetValue(v.resp.result)

\* CallToolResult looking for the result before the error
CallToolResult_ResultFirst(v) ==
    IF v.kind = "none" THEN RetNone
    ELSE IF v.resp.result # Absent
         THEN (IF v.resp.result = JNull THEN RetNone ELSE RetValue(v.resp.result))
    ELSE IF v.resp.error # Absent THEN RetError(v.resp.error)
    ELSE v

\* lines 408-414 of call_tool, on what rpc_request returned
CallToolResult(v) ==
    IF v.kind = "none" THEN RetNone
    ELSE IF v.resp.error # Absent THEN RetError(v.resp.error)
    ELSE IF v.resp.result = Absent THEN v
    ELSE IF v.resp.result = JNull THEN RetNone
    ELSE RetValue(v.resp.result)

\* The results a server may give to tools/list, and the JSON value each
\* stands for: dict says it is an object, list that it has a list under
\* "tools", tools gives the entries of that list. An entry is a string (str),
\* an object with its "name" and "tool" ("" when falsy or not there), or
\* something else.
ToolEntry(kind, str, name, tool) ==
    [kind |-> kind, str |-> str, name |-> name, tool |-> tool]

ToolsResults ==
    {"tools:[]", "tools:[x,{name:y},{tool:z},{},5]", "tools:[{},5]", "tools:text"}

JsonOf(result) ==
    CASE result = "tools:[]" -> [dict |-> TRUE, list |-> TRUE, tools |-> <<>>]
      [] result = "tools:[x,{name:y},{tool:z},{},5]" ->
            [dict |-> TRUE, list |-> TRUE,
             tools |-> <<ToolEntry("str", "x", "", ""), ToolEntry("dict", "", "y", ""),
                         ToolEntry("dict", "", "", "z"), ToolEntry("dict", "", "", ""),
                         ToolEntry("other", "", "", "")>>]
      [] result = "tools:[{},5]" ->
            [dict |-> TRUE, list |-> TRUE,
             tools |-> <<ToolEntry("dict", "", "", ""), ToolEntry("other", "", "", "")>>]
      [] result = "tools:text" -> [dict |-> TRUE, list |-> FALSE, tools |-> <<>>]
      [] result \in {Absent, JNull} -> [dict |-> TRUE, list |-> FALSE, tools |-> <<>>]
      [] OTHER -> [dict |-> FALSE, list |-> FALSE, tools |-> <<>>]

\* lines 236-243: the names collected from the entries of the list
RECURSIVE Collected(_)
Collected(tools) ==
    IF tools = <<>> THEN <<>>
    ELSE LET e == Head(tools)
             name == IF e.name # "" THEN e.name ELSE e.tool
         IN  (CASE e.kind = "str" -> <<e.str>>
                [] e.kind = "dict" /\ name # "" -> <<name>>
                [] OTHER -> <<>>) \o Collected(Tail(tools))

\* DiscoverResult returning the names also when there are none
DiscoverResult_EmptyList(v) ==
    IF v.kind = "none" THEN RetNone
    ELSE LET j == JsonOf(v.resp.result)
         IN  IF j.dict /\ j.list THEN RetValue(Collected(j.tools)) ELSE RetNone

\* lines 231-246 of discover_tools, on what rpc_request returned: `result or
\* {}`, the list under "tools", the names, `if names: return names`
DiscoverResult(v) ==
    IF v.kind = "none" THEN RetNone
    ELSE LET j == JsonOf(v.resp.result)
         IN  IF j.dict /\ j.list /\ Collected(j.tools) # <<>>
             THEN RetValue(Collected(j.tools))
             ELSE RetNone

\* rpc_request returns v at line s; call_tool (lines 399-414) and
\* discover_tools (231-246) go on from there
RpcReturned(rec, v, s) ==
    Returned([rec EXCEPT !.response = v],
             CASE rec.op = "call_tool" -> CallToolResult(v)
               [] rec.op \in {"discover", "refresh"} -> DiscoverResult(v)
               [] OTHER -> v, s)

\* RpcFailed returning False where the code returns None
RpcFailed_ReturnsFalse(rec, n) == RpcReturned(rec, RetBool(FALSE), RpcFailSite(n))

\* lines 359-368: rpc_request on a name that is not ready returns None
RpcFailed(rec, n) == RpcReturned(rec, RetNone, RpcFailSite(n))

\* the pipes of every process of server n and the queue of n are empty: no
\* request to n is waiting for its answer and no answer is under way
Quiet(n) ==
    /\ \A p \in Pids : procs[p].name = n =>
          procs[p].stdin = <<>> /\ procs[p].stdout = <<>>
    /\ n \in DOMAIN response_queues => procs[response_queues[n]].chan = <<>>

\* every process ever started for n is an echo server
EchoServer(n) == \A p \in Pids : procs[p].name = n => procs[p].mode = "echo"

\* lines 359-377: the checks, then `with lock: req_id = next(counter)`
RpcEntry(t, rec, n) ==
    IF ~RpcReady(n)
    THEN /\ SetTh(t, RpcFailed(rec, n))
         /\ UNCHANGED procs
    ELSE LET c == id_counters[n]
         IN  /\ procs[c].ctr <= MaxId
             /\ SetProc(c, [procs[c] EXCEPT !.ctr = @ + 1])
             /\ SetTh(t, [rec EXCEPT !.pc = "rpc_send",
                                     !.q = response_queues[n],
                                     !.req_id = procs[c].ctr])

RpcCheck(t, op, n, m) ==
    /\ th[t].pc = "idle"
    /\ RpcEntry(t, [Enter(t, op, n, m) EXCEPT !.clean = Quiet(n) /\ EchoServer(n)], n)
    /\ UNCHANGED <<servers, active_processes, response_queues, id_counters,
                   counter_locks, shutdown_event, executor_shutdown>>
    /\ UNCHANGED outcome

\* the callers of rpc_request other than call_tool send method "ping"
rpc_request(t, n) == RpcCheck(t, "rpc", n, "ping")

\* lines 396-406
call_tool(t, n) == RpcCheck(t, "call_tool", n, "tools/call")

\* Declared asking the server whenever it is running
Declared_OnlyWhenInactive(n) ==
    n \in DOMAIN servers /\ servers[n].tools # <<>> /\ n \notin DOMAIN active_processes

\* line 226: the configuration of n declares tools
Declared(n) == n \in DOMAIN servers /\ servers[n].tools # <<>>

\* lines 219-231 of discover_tools (and list_tools, 424-426): the declared
\* tools, or the tools/list request
discover_tools(t, n) ==
    IF Declared(n)
    THEN /\ th[t].pc = "idle"
         /\ SetTh(t, Returned(Enter(t, "discover", n, "tools/list"),
                              RetValue(servers[n].tools), 228))
         /\ UNCHANGED shared
         /\ UNCHANGED outcome
    ELSE RpcCheck(t, "discover", n, "tools/list")

\* lines 430-431: discovered = {}, and the names that are active now
RefreshBegin(t) ==
    /\ th[t].pc = "idle"
    /\ SetTh(t, [Enter(t, "refresh", "a", "tools/list") EXCEPT
                    !.pc = "refresh_loop", !.todo = DOMAIN active_processes])
    /\ UNCHANGED shared
    /\ UNCHANGED outcome

\* lines 431-432 and 437: list_tools for the next name, or `return discovered`
RefreshLoop(t) ==
    /\ th[t].pc = "refresh_loop"
    /\ IF th[t].todo = {}
       THEN /\ SetTh(t, [th[t] EXCEPT !.pc = "idle", !.ret = RetMap(th[t].results),
                                      !.site = 437])
            /\ UNCHANGED procs
       ELSE LET n == FirstLoaded(th[t].todo)
                rec == [th[t] EXCEPT !.todo = @ \ {n}, !.name = n,
                                     !.clean = Quiet(n) /\ EchoServer(n)]
            IN  IF Declared(n)
                THEN /\ SetTh(t, Returned(rec, RetValue(servers[n].tools), 228))
                     /\ UNCHANGED procs
                ELSE RpcEntry(t, rec, n)
    /\ UNCHANGED <<servers, active_processes, response_queues, id_counters,
                   counter_locks, shutdown_event, executor_shutdown>>
    /\ UNCHANGED outcome

\* what `list_tools(name) or []` is for the value v list_tools returned
OrEmpty(v) == IF v.kind = "value" THEN v.val ELSE <<>>

\* RefreshStore putting the tools in the map alone
RefreshStore_SkipsConfig(t) ==
    /\ th[t].pc = "refresh_store"
    /\ LET n == th[t].name
           tools == OrEmpty(th[t].ret)
       IN  SetTh(t, [th[t] EXCEPT !.pc = "refresh_loop",
                                  !.results = Put(@, n, tools)])
    /\ UNCHANGED <<servers, active_processes, response_queues, id_counters,
                   counter_locks, shutdown_event, executor_shutdown, procs>>
    /\ UNCHANGED outcome

\* lines 432-436: tools = ... or [], cfg.tools = tools when the name is
\* configured, discovered[name] = tools
RefreshStore(t) ==
    /\ th[t].pc = "refresh_store"
    /\ LET n == th[t].name
           tools == OrEmpty(th[t].ret)
       IN  /\ servers' = IF n \in DOMAIN servers
                         THEN [servers EXCEPT ![n].tools = tools] ELSE servers
           /\ SetTh(t, [th[t] EXCEPT !.pc = "refresh_loop",
                                     !.results = Put(@, n, tools)])
    /\ UNCHANGED <<active_processes, response_queues, id_counters, counter_locks,
                   shutdown_event, executor_shutdown, procs>>
    /\ UNCHANGED outcome

\* SendOutcome taking the write to the pipe of an exited child for a success
SendOutcome_IgnoresExit(n) ==
    IF n \notin DOMAIN active_processes THEN "failed"
    ELSE IF Len(procs[active_processes[n]].stdin) >= PipeCap THEN "blocked"
    ELSE "sent"

\* send_message, lines 340-355: "sent", "failed" (not active, or the write to
\* the pipe of an exited child raises), or "blocked" (the pipe is full and the
\* child is not reading: write() does not return)
SendOutcome(n) ==
    IF n \notin DOMAIN active_processes THEN "failed"
    ELSE IF ~procs[active_processes[n]].alive THEN "failed"
    ELSE IF Len(procs[active_processes[n]].stdin) >= PipeCap THEN "blocked"
    ELSE "sent"

\* line 379: send_message writes the request to the process registered under
\* the name now (line 344); the thread keeps that process in mind while it waits
RpcSend(t) ==
    /\ th[t].pc = "rpc_send"
    /\ LET n == th[t].name
           out == SendOutcome(n)
       IN  /\ out # "blocked"
           /\ IF out = "failed"
              THEN /\ SetTh(t, RpcReturned(th[t], RetNone, 380))
                   /\ procs' = Collect(procs, response_queues, id_counters, th')
              ELSE LET p == active_processes[n]
                   IN  /\ SetProc(p, [procs[p] EXCEPT !.stdin =
                               Append(@, Request(th[t].req_id, th[t].method))])
                       /\ SetTh(t, [th[t] EXCEPT !.pc = "rpc_wait", !.process = p])
    /\ UNCHANGED <<servers, active_processes, response_queues, id_counters,
                   counter_locks, shutdown_event, executor_shutdown>>
    /\ UNCHANGED outcome

\* the message of test_message_sending (test_mcp_client.py, line 172)
TestMessage == Request(1, "test")

\* lines 342, 351, 355: the return statement that ends send_message
SendSite(out, n) ==
    IF out = "sent" THEN 351
    ELSE IF n \notin DOMAIN active_processes THEN 342 ELSE 355

\* lines 334-355, send_message called by a user of the client: json.dumps of
\* the message and a newline, written to the stdin of the process and flushed
\* (one element of stdin is one complete line)
send_message(t, n) ==
    /\ th[t].pc = "idle"
    /\ LET out == SendOutcome(n)
           rec == Enter(t, "send", n, TestMessage.method)
       IN  /\ out # "blocked"
           /\ SetTh(t, Returned(rec, RetBool(out = "sent"), SendSite(out, n)))
           /\ IF out = "sent"
              THEN /\ procs[active_processes[n]].sent < MaxSend
                   /\ SetProc(active_processes[n],
                              [procs[active_processes[n]] EXCEPT
                                  !.stdin = Append(@, TestMessage),
                                  !.sent = @ + 1])
              ELSE UNCHANGED procs
    /\ UNCHANGED <<servers, active_processes, response_queues, id_counters,
                   counter_locks, shutdown_event, executor_shutdown>>
    /\ UNCHANGED outcome

\* the item q.get(timeout) hands out: the oldest one
Dequeued(chan) == Head(chan)

\* RpcWait reading the oldest item and leaving it in the queue
RpcWait_LeavesItem(t) ==
    /\ th[t].pc = "rpc_wait"
    /\ LET q == th[t].q
       IN  IF procs[q].chan # <<>>
           THEN SetTh(t, RpcReturned(th[t], RetResp(Dequeued(procs[q].chan)), 384))
           ELSE SetTh(t, RpcReturned(th[t], RetNone, 387))
    /\ procs' = Collect(procs, response_queues, id_counters, th')
    /\ UNCHANGED <<servers, active_processes, response_queues, id_counters,
                   counter_locks, shutdown_event, executor_shutdown>>
    /\ UNCHANGED outcome

\* lines 382-387: q.get(timeout) yields an item, or queue.Empty at the deadline
RpcWait(t) ==
    /\ th[t].pc = "rpc_wait"
    /\ LET q == th[t].q
       IN  IF procs[q].chan # <<>>
           THEN /\ SetTh(t, RpcReturned(th[t], RetResp(Dequeued(procs[q].chan)), 384))
                /\ procs' = Collect([procs EXCEPT ![q].chan = Tail(@)],
                                    response_queues, id_counters, th')
           ELSE /\ SetTh(t, RpcReturned(th[t], RetNone, 387))
                /\ procs' = Collect(procs, response_queues, id_counters, th')
    /\ UNCHANGED <<servers, active_processes, response_queues, id_counters,
                   counter_locks, shutdown_event, executor_shutdown>>
    /\ UNCHANGED outcome

(* ---- shutdown ---- *)
\* ShutdownBegin leaving the event for later
ShutdownBegin_NoEvent(t) ==
    /\ th[t].pc = "idle"
    /\ SetTh(t, [Enter(t, "shutdown", "a", "ping") EXCEPT
                    !.pc = "shut_loop", !.todo = DOMAIN active_processes])
    /\ UNCHANGED <<servers, active_processes, response_queues, id_counters,
                   counter_locks, shutdown_event, executor_shutdown, procs>>
    /\ UNCHANGED outcome

\* lines 447-450: set the event, take the list of active names
ShutdownBegin(t) ==
    /\ th[t].pc = "idle"
    /\ shutdown_event' = TRUE
    /\ SetTh(t, [Enter(t, "shutdown", "a", "ping") EXCEPT
                    !.pc = "shut_loop", !.todo = DOMAIN active_processes])
    /\ UNCHANGED <<servers, active_processes, response_queues, id_counters,
                   counter_locks, executor_shutdown, procs>>
    /\ UNCHANGED outcome

\* lines 450-451: the next stop_server call of the loop, or the end of the loop
ShutdownLoop(t) ==
    /\ th[t].pc = "shut_loop"
    /\ IF th[t].todo = {}
       THEN /\ SetTh(t, [th[t] EXCEPT !.pc = "shut_pool"])
            /\ UNCHANGED procs
       ELSE \E n \in th[t].todo :
               /\ SetTh(t, StopEntry([th[t] EXCEPT !.todo = @ \ {n}], n))
               /\ procs' = Terminated(procs, n)
    /\ UNCHANGED <<servers, active_processes, response_queues, id_counters,
                   counter_locks, shutdown_event, executor_shutdown>>
    /\ outcome' = Noted(th'[t])

\* line 453, executor.shutdown: no task is accepted from now on
ShutdownPool(t) ==
    /\ th[t].pc = "shut_pool"
    /\ executor_shutdown' = TRUE
    /\ SetTh(t, [th[t] EXCEPT !.pc = "shut_join"])
    /\ UNCHANGED <<servers, active_processes, response_queues, id_counters,
                   counter_locks, shutdown_event, procs>>
    /\ UNCHANGED outcome

\* line 453, wait=True: returns when every reader task has ended
ShutdownJoin(t) ==
    /\ th[t].pc = "shut_join"
    /\ \A p \in Pids : procs[p].rdout \notin {"running", "queued"} /\ ~StderrReaderRunning(p)
    /\ SetTh(t, [th[t] EXCEPT !.pc = "idle", !.ret = RetNone, !.site = 454])
    /\ UNCHANGED shared
    /\ UNCHANGED outcome


(* ------------------------- output-reader tasks ------------------------- *)
\* line 323: json.loads(line) raises JSONDecodeError (ok is false) or
\* yields a value, which is a dict or not
JsonLoads(line) ==
    [ok |-> line.shape \in {"object", "array", "scalar"},
     dict |-> line.shape = "object"]

\* IsResponse taking every object with an id for a response
IsResponse_AnyObjectWithId(line) ==
    /\ JsonLoads(line).ok
    /\ JsonLoads(line).dict
    /\ line.hasid

\* lines 323-327: the line parses and the parsed line is a response
IsResponse(line) ==
    /\ JsonLoads(line).ok
    /\ JsonLoads(line).dict
    /\ line.hasid
    /\ (line.result # Absent \/ line.error # Absent)

\* TargetQueue taking the queue of whichever server is registered
TargetQueue_AnyServer(n) ==
    response_queues[CHOOSE m \in DOMAIN response_queues : m # n \/ DOMAIN response_queues = {n}]

\* line 328: the queue registered under the server name the task was given
TargetQueue(n) == response_queues[n]

\* lines 298-309 and 314-332, one turn of the stdout reader's loop with a line
\* to read; the queue is looked up by server name when the line is processed
ReaderLine(p) ==
    /\ procs[p].rdout = "running"
    /\ ~shutdown_event
    /\ procs[p].stdout # <<>>
    /\ LET line == Head(procs[p].stdout)
           n == procs[p].name
           rest == [procs EXCEPT ![p].stdout = Tail(@)]
       IN  procs' = IF IsResponse(line) /\ n \in DOMAIN response_queues
                    THEN [rest EXCEPT ![TargetQueue(n)].chan = Append(@, line)]
                    ELSE rest
    /\ UNCHANGED <<servers, active_processes, response_queues, id_counters,
                   counter_locks, shutdown_event, executor_shutdown, th>>
    /\ UNCHANGED outcome

\* lines 298-309 and 316-317, one turn of the stderr reader's loop with a line
\* to read: the line is logged
StderrLine(p) ==
    /\ StderrReaderRunning(p)
    /\ procs[p].stderr # <<>>
    /\ SetProc(p, [procs[p] EXCEPT !.stderr = Tail(@)])
    /\ UNCHANGED <<servers, active_processes, response_queues, id_counters,
                   counter_locks, shutdown_event, executor_shutdown, th>>
    /\ UNCHANGED outcome

\* ReaderStart leaving the waiting tasks where they are once the event is set
ReaderStart_NotAfterEvent(p) ==
    /\ procs[p].rdout = "queued"
    /\ ~shutdown_event
    /\ \A r \in Pids : procs[r].rdout = "queued" => p <= r
    /\ Busy < max_workers
    /\ SetProc(p, [procs[p] EXCEPT !.rdout = "running"])
    /\ UNCHANGED <<servers, active_processes, response_queues, id_counters,
                   counter_locks, shutdown_event, executor_shutdown, th>>
    /\ UNCHANGED outcome

\* a worker of the pool is free and takes the tasks that have waited longest
ReaderStart(p) ==
    /\ procs[p].rdout = "queued"
    /\ \A r \in Pids : procs[r].rdout = "queued" => p <= r
    /\ Busy < max_workers
    /\ SetProc(p, [procs[p] EXCEPT !.rdout = "running"])
    /\ UNCHANGED <<servers, active_processes, response_queues, id_counters,
                   counter_locks, shutdown_event, executor_shutdown, th>>
    /\ UNCHANGED outcome

\* lines 304-306: readline returns '' once the child has exited and the pipe
\* is drained
ReaderEOF(p) ==
    /\ procs[p].rdout = "running"
    /\ ~shutdown_event
    /\ ~procs[p].alive
    /\ procs[p].stdout = <<>>
    /\ SetProc(p, [procs[p] EXCEPT !.rdout = "done"])
    /\ UNCHANGED <<servers, active_processes, response_queues, id_counters,
                   counter_locks, shutdown_event, executor_shutdown, th>>
    /\ UNCHANGED outcome

\* line 298: the loop condition fails once the shutdown event is set; what is
\* left in the pipe is never read
ReaderCancel(p) ==
    /\ procs[p].rdout = "running"
    /\ shutdown_event
    /\ SetProc(p, [procs[p] EXCEPT !.rdout = "done", !.stdout = <<>>])
    /\ UNCHANGED <<servers, active_processes, response_queues, id_counters,
                   counter_locks, shutdown_event, executor_shutdown, th>>
    /\ UNCHANGED outcome

(* --------------------------- child processes --------------------------- *)
\* the lines a child may write on reading request r; a "tools" server gives
\* tools/list one of the results above or an error, and echoes the rest
Answers(mode, r) ==
    IF mode = "faulty"
    THEN {Response(r.id, Absent, "err"), Response(r.id, "partial", "err"),
          Response(r.id, JNull, Absent)}
    ELSE IF mode = "tools" /\ r.method = "tools/list"
    THEN {Response(r.id, res, Absent) : res \in ToolsResults}
             \cup {Response(r.id, Absent, "err")}
    ELSE {Response(r.id, r.method, Absent)}

\* lines nobody asked for: plain text, a response-shaped line
Unsolicited == {TextLine, Response(1, "stray", Absent)}

\* what a "lines" server may write to stdout besides its answers: plain text,
\* a cut-off response, a response inside an array, a number, a notification,
\* a result without an id, a request of its own, a response, an error response
StdoutLines ==
    {TextLine,
     Shaped("malformed", TRUE, 1, "stray", Absent),
     Shaped("array", TRUE, 1, "stray", Absent),
     Shaped("scalar", FALSE, 0, Absent, Absent),
     Line(TRUE, FALSE, 0, Absent, Absent),
     Line(TRUE, FALSE, 0, "stray", Absent),
     Line(TRUE, TRUE, 1, Absent, Absent),
     Response(1, "stray", Absent),
     Response(1, Absent, "err")}

\* and to stderr: plain text, a response-shaped line
StderrLines == {TextLine, Response(1, "on_stderr", Absent)}

\* the lines a server of this mode writes unasked
Emits(mode) == IF mode = "lines" THEN StdoutLines ELSE Unsolicited

\* a written line stays in the stdout pipe unless its reader has ended
Written(rec, line) ==
    IF rec.rdout = "done" THEN rec ELSE [rec EXCEPT !.stdout = Append(@, line)]

\* the child can write a line to stdout without blocking
CanWrite(rec) == rec.rdout = "done" \/ Len(rec.stdout) < PipeCap

ChildAnswer(p) ==
    /\ procs[p].alive
    /\ procs[p].stdin # <<>>
    /\ LET r == Head(procs[p].stdin)
           rec == [procs[p] EXCEPT !.stdin = Tail(@)]
       IN  \/ /\ CanWrite(procs[p])
              /\ \E line \in Answers(procs[p].mode, r) : SetProc(p, Written(rec, line))
           \/ procs[p].mode = "faulty" /\ SetProc(p, rec)
    /\ UNCHANGED <<servers, active_processes, response_queues, id_counters,
                   counter_locks, shutdown_event, executor_shutdown, th>>
    /\ UNCHANGED outcome

ChildEmit(p) ==
    /\ procs[p].alive
    /\ procs[p].mode \in {"chatty", "lines"}
    /\ procs[p].emitted < MaxEmit
    /\ CanWrite(procs[p])
    /\ \E line \in Emits(procs[p].mode) :
          SetProc(p, Written([procs[p] EXCEPT !.emitted = @ + 1], line))
    /\ UNCHANGED <<servers, active_processes, response_queues, id_counters,
                   counter_locks, shutdown_event, executor_shutdown, th>>
    /\ UNCHANGED outcome

\* a "lines" server writes a line to stderr when the pipe has room
ChildErr(p) ==
    /\ procs[p].alive
    /\ procs[p].mode = "lines"
    /\ Len(procs[p].stderr) < PipeCap
    /\ \E line \in StderrLines :
          SetProc(p, [procs[p] EXCEPT !.stderr = Append(@, line)])
    /\ UNCHANGED <<servers, active_processes, response_queues, id_counters,
                   counter_locks, shutdown_event, executor_shutdown, th>>
    /\ UNCHANGED outcome

\* the child exits: on its own, by crashing, or on the signal of terminate()
ChildExit(p) ==
    /\ procs[p].alive
    /\ SetProc(p, Exited(procs[p]))
    /\ UNCHANGED <<servers, active_processes, response_queues, id_counters,
                   counter_locks, shutdown_event, executor_shutdown, th>>
    /\ UNCHANGED outcome

(* --------------------------- specifications ---------------------------- *)
Next ==
    \/ \E t \in DOMAIN th, n \in Names : StartCheck(t, n)
    \/ \E t \in DOMAIN th : StartSpawn(t)
    \/ \E t \in DOMAIN th : StartRegister(t)
    \/ \E t \in DOMAIN th : StartSubmit(t)
    \/ \E t \in DOMAIN th : StartInit(t)
    \/ \E t \in DOMAIN th, n \in Names : StopCheck(t, n)
    \/ \E t \in DOMAIN th : StopWait(t)
    \/ \E t \in DOMAIN th : StopPop(t)
    \/ \E t \in DOMAIN th : StartAllBegin(t)
    \/ \E t \in DOMAIN th : StartAllLoop(t)
    \/ \E t \in DOMAIN th : StopAllBegin(t)
    \/ \E t \in DOMAIN th : StopAllLoop(t)
    \/ \E t \in DOMAIN th, n \in Names : rpc_request(t, n)
    \/ \E t \in DOMAIN th, n \in Names : call_tool(t, n)
    \/ \E t \in DOMAIN th : RpcSend(t)
    \/ \E t \in DOMAIN th : RpcWait(t)
    \/ \E t \in DOMAIN th : ShutdownBegin(t)
    \/ \E t \in DOMAIN th : ShutdownLoop(t)
    \/ \E t \in DOMAIN th : ShutdownPool(t)
    \/ \E t \in DOMAIN th : ShutdownJoin(t)
    \/ \E p \in Pids : ReaderLine(p)
    \/ \E p \in Pids : ReaderEOF(p)
    \/ \E p \in Pids : ReaderCancel(p)
    \/ \E p \in Pids : ChildAnswer(p)
    \/ \E p \in Pids : ChildEmit(p)
    \/ \E p \in Pids : ChildExit(p)

Spec == Init /\ [][Next]_vars

\* callers on several threads that start and stop the configured echo server
\* and send it requests
InitConc == InitWith(Threads, {"echo"})

NextConc ==
    \/ \E t \in DOMAIN th, n \in DOMAIN servers : StartCheck(t, n)
    \/ \E t \in DOMAIN th : StartSpawn(t)
    \/ \E t \in DOMAIN th : StartRegister(t)
    \/ \E t \in DOMAIN th : StartSubmit(t)
    \/ \E t \in DOMAIN th : StartInit(t)
    \/ \E t \in DOMAIN th, n \in DOMAIN servers : StopCheck(t, n)
    \/ \E t \in DOMAIN th : StopWait(t)
    \/ \E t \in DOMAIN th : StopPop(t)
    \/ \E t \in DOMAIN th, n \in DOMAIN servers : rpc_request(t, n)
    \/ \E t \in DOMAIN th : RpcSend(t)
    \/ \E t \in DOMAIN th : RpcWait(t)
    \/ \E p \in Pids : ReaderLine(p)
    \/ \E p \in Pids : ReaderEOF(p)
    \/ \E p \in Pids : ChildAnswer(p)
    \/ \E p \in Pids : ChildExit(p)

SpecConc == InitConc /\ [][NextConc]_vars

\* A client that has just been constructed and loads its configuration from
\* files and from the environment, source after source
InitConfig ==
    /\ servers = <<>>
    /\ active_processes = <<>>
    /\ response_queues = <<>>
    /\ id_counters = <<>>
    /\ counter_locks = <<>>
    /\ shutdown_event = FALSE
    /\ executor_shutdown = FALSE
    /\ procs = <<>>
    /\ th = [t \in {1} |-> IdleThread]
    /\ outcome = [n \in Names |-> "none"]

NextConfig ==
    \/ \E t \in DOMAIN th, file \in JsonFiles : load_servers_from_json(t, file)
    \/ \E t \in DOMAIN th, e \in Environs : load_servers_from_env(t, e)

SpecConfig == InitConfig /\ [][NextConfig]_vars

\* The module-level client (get_mcp_client, lines 460-464), new or with a
\* server configured by its user already, initialized from the two default
\* files, an explicit file and the environment; one call of
\* initialize_mcp_client in a run
InitInit ==
    /\ servers \in {<<>>, [n \in {"a"} |-> MCPServerConfig("echo", <<"tool_old">>)]}
    /\ active_processes = <<>>
    /\ response_queues = <<>>
    /\ id_counters = <<>>
    /\ counter_locks = <<>>
    /\ shutdown_event = FALSE
    /\ executor_shutdown = FALSE
    /\ procs = <<>>
    /\ th = [t \in {1} |-> IdleThread]
    /\ outcome = [n \in Names |-> "none"]

NextInit ==
    \E t \in DOMAIN th, home \in HomeFiles, local \in LocalFiles,
       explicit \in ExplicitFiles, e \in InitEnvirons :
        th[t].op = "none" /\ initialize_mcp_client(t, home, local, explicit, e)

SpecInit == InitInit /\ [][NextInit]_vars

\* Two servers that answer tools/list, "a" without declared tools and "b"
\* with one, and a caller that starts them, asks for their tools and
\* refreshes the tools of the active ones, while the servers may exit
InitTools ==
    /\ servers = [n \in Names |->
                     MCPServerConfig("tools", IF n = "a" THEN <<>> ELSE <<"tool_b">>)]
    /\ active_processes = <<>>
    /\ response_queues = <<>>
    /\ id_counters = <<>>
    /\ counter_locks = <<>>
    /\ shutdown_event = FALSE
    /\ executor_shutdown = FALSE
    /\ procs = <<>>
    /\ th = [t \in {1} |-> IdleThread]
    /\ outcome = [n \in Names |-> "none"]

NextTools ==
    \/ \E t \in DOMAIN th, n \in Names : StartCheck(t, n)
    \/ \E t \in DOMAIN th : StartSpawn(t)
    \/ \E t \in DOMAIN th : StartRegister(t)
    \/ \E t \in DOMAIN th : StartSubmit(t)
    \/ \E t \in DOMAIN th : StartInit(t)
    \/ \E t \in DOMAIN th, n \in Names : discover_tools(t, n)
    \/ \E t \in DOMAIN th : RefreshBegin(t)
    \/ \E t \in DOMAIN th : RefreshLoop(t)
    \/ \E t \in DOMAIN th : RefreshStore(t)
    \/ \E t \in DOMAIN th : RpcSend(t)
    \/ \E t \in DOMAIN th : RpcWait(t)
    \/ \E p \in Pids : ReaderLine(p)
    \/ \E p \in Pids : ChildAnswer(p)
    \/ \E p \in Pids : ChildExit(p)

SpecTools == InitTools /\ [][NextTools]_vars

\* A server that echoes requests and writes lines of every shape to stdout
\* and stderr, and a caller that starts it and sends it requests
InitLines == InitWith({1}, {"lines"})

NextLines ==
    \/ \E t \in DOMAIN th, n \in Names : StartCheck(t, n)
    \/ \E t \in DOMAIN th : StartSpawn(t)
    \/ \E t \in DOMAIN th : StartRegister(t)
    \/ \E t \in DOMAIN th : StartSubmit(t)
    \/ \E t \in DOMAIN th : StartInit(t)
    \/ \E t \in DOMAIN th, n \in Names : rpc_request(t, n)
    \/ \E t \in DOMAIN th : RpcSend(t)
    \/ \E t \in DOMAIN th : RpcWait(t)
    \/ \E p \in Pids : ReaderLine(p)
    \/ \E p \in Pids : ReaderEOF(p)
    \/ \E p \in Pids : StderrLine(p)
    \/ \E p \in Pids : ChildAnswer(p)
    \/ \E p \in Pids : ChildEmit(p)
    \/ \E p \in Pids : ChildErr(p)
    \/ \E p \in Pids : ChildExit(p)

SpecLines == InitLines /\ [][NextLines]_vars

\* A user of the client that writes messages of its own to the configured echo
\* server with send_message, between starts and stops, while the child
\* answers them or exits
InitSend == InitWith({1}, {"echo"})

NextSend ==
    \/ \E t \in DOMAIN th, n \in Names : StartCheck(t, n)
    \/ \E t \in DOMAIN th : StartSpawn(t)
    \/ \E t \in DOMAIN th : StartRegister(t)
    \/ \E t \in DOMAIN th : StartSubmit(t)
    \/ \E t \in DOMAIN th : StartInit(t)
    \/ \E t \in DOMAIN th, n \in Names : StopCheck(t, n)
    \/ \E t \in DOMAIN th : StopWait(t)
    \/ \E t \in DOMAIN th : StopPop(t)
    \/ \E t \in DOMAIN th, n \in Names : send_message(t, n)
    \/ \E t \in DOMAIN th, n \in Names : rpc_request(t, n)
    \/ \E t \in DOMAIN th : RpcSend(t)
    \/ \E t \in DOMAIN th : RpcWait(t)
    \/ \E p \in Pids : ReaderLine(p)
    \/ \E p \in Pids : ReaderEOF(p)
    \/ \E p \in Pids : ChildAnswer(p)
    \/ \E p \in Pids : ChildExit(p)

SpecSend == InitSend /\ [][NextSend]_vars

\* Two servers of different kinds, an echo server and a faulty one, and a
\* caller that starts and stops them, one by one or all at once, and sends
\* them requests
InitTwo ==
    /\ servers = [n \in Names |-> MCPServerConfig(IF n = "a" THEN "echo" ELSE "faulty", <<>>)]
    /\ active_processes = <<>>
    /\ response_queues = <<>>
    /\ id_counters = <<>>
    /\ counter_locks = <<>>
    /\ shutdown_event = FALSE
    /\ executor_shutdown = FALSE
    /\ procs = <<>>
    /\ th = [t \in {1} |-> IdleThread]
    /\ outcome = [n \in Names |-> "none"]

NextTwo ==
    \/ \E t \in DOMAIN th, n \in Names : StartCheck(t, n)
    \/ \E t \in DOMAIN th : StartSpawn(t)
    \/ \E t \in DOMAIN th : StartRegister(t)
    \/ \E t \in DOMAIN th : StartSubmit(t)
    \/ \E t \in DOMAIN th : StartInit(t)
    \/ \E t \in DOMAIN th, n \in Names : StopCheck(t, n)
    \/ \E t \in DOMAIN th : StopWait(t)
    \/ \E t \in DOMAIN th : StopPop(t)
    \/ \E t \in DOMAIN th : StartAllBegin(t)
    \/ \E t \in DOMAIN th : StartAllLoop(t)
    \/ \E t \in DOMAIN th : StopAllBegin(t)
    \/ \E t \in DOMAIN th : StopAllLoop(t)
    \/ \E t \in DOMAIN th, n \in Names : rpc_request(t, n)
    \/ \E t \in DOMAIN th : RpcSend(t)
    \/ \E t \in DOMAIN th : RpcWait(t)
    \/ \E p \in Pids : ReaderLine(p)
    \/ \E p \in Pids : ChildAnswer(p)

SpecTwo == InitTwo /\ [][NextTwo]_vars

\* More servers configured than the pool has pairs of workers (Spec and
\* SpecConc never have max_workers reader tasks at a time, so that no task of
\* theirs waits for a worker). The first four are running already, as after
\* a start_all_servers in which the spawn of the other two failed; a caller
\* goes on with start_all_servers.
PoolServers == {LoadOrder[i] : i \in DOMAIN LoadOrder}
PoolStarted == 1..4

InitPool ==
    /\ servers = [n \in PoolServers |-> MCPServerConfig("echo", <<>>)]
    /\ active_processes = [n \in {LoadOrder[i] : i \in PoolStarted} |->
                              CHOOSE i \in PoolStarted : LoadOrder[i] = n]
    /\ response_queues = active_processes
    /\ id_counters = active_processes
    /\ counter_locks = active_processes
    /\ shutdown_event = FALSE
    /\ executor_shutdown = FALSE
    /\ procs = [i \in PoolStarted |->
                  [NewProc(LoadOrder[i], "echo") EXCEPT !.rdout = "running"]]
    /\ th = [t \in {1} |-> IdleThread]
    /\ outcome = [n \in PoolServers |->
                     IF n \in DOMAIN active_processes THEN "started" ELSE "none"]

NextPool ==
    \/ \E t \in DOMAIN th : StartAllBegin(t)
    \/ \E t \in DOMAIN th : StartAllLoop(t)
    \/ \E t \in DOMAIN th : StartSpawn(t)
    \/ \E t \in DOMAIN th : StartRegister(t)
    \/ \E t \in DOMAIN th : StartSubmit(t)
    \/ \E t \in DOMAIN th : StartInit(t)
    \/ \E p \in Pids : ReaderStart(p)
    \/ \E p \in Pids : ReaderEOF(p)
    \/ \E p \in Pids : ChildExit(p)

SpecPool == InitPool /\ [][NextPool]_vars

\* Six servers running: the ten reader tasks of the first five are on the ten
\* workers of the pool, those of the sixth wait for a worker. A caller shuts
\* the client down. The caller inside shutdown() goes on with it, and a
\* worker of the pool that can take a task, or whose task can leave its loop,
\* does so; a child need not exit unless it is stopped, a caller need not call.
ShutStarted == 1..6
\* the servers whose process may exit on its own; the processes of the others
\* run until they are signalled
Crashing == {"a"}

InitShut ==
    /\ servers = [n \in PoolServers |-> MCPServerConfig("echo", <<>>)]
    /\ active_processes = [n \in PoolServers |->
                              CHOOSE i \in ShutStarted : LoadOrder[i] = n]
    /\ response_queues = active_processes
    /\ id_counters = active_processes
    /\ counter_locks = active_processes
    /\ shutdown_event = FALSE
    /\ executor_shutdown = FALSE
    /\ procs = [i \in ShutStarted |->
                  [NewProc(LoadOrder[i], "echo") EXCEPT
                      !.rdout = IF 2 * i <= max_workers THEN "running" ELSE "queued"]]
    /\ th = [t \in {1} |-> IdleThread]
    /\ outcome = [n \in PoolServers |-> "started"]

\* the steps of a caller that is inside shutdown
CallerStep(t) ==
    \/ ShutdownLoop(t)
    \/ StopWait(t)
    \/ StopPop(t)
    \/ ShutdownPool(t)
    \/ ShutdownJoin(t)

\* the steps of the pool's workers for the reader tasks of process p
WorkerStep(p) ==
    /\ p \in Pids
    /\ \/ ReaderStart(p)
       \/ ReaderEOF(p)
       \/ ReaderCancel(p)

NextShut ==
    \/ \E t \in DOMAIN th : ShutdownBegin(t)
    \/ \E t \in DOMAIN th : CallerStep(t)
    \/ \E p \in Pids : WorkerStep(p)
    \/ \E p \in Pids : (procs[p].sigterm \/ procs[p].name \in Crashing) /\ ChildExit(p)

SpecShut ==
    /\ InitShut
    /\ [][NextShut]_vars
    /\ \A t \in {1} : WF_vars(CallerStep(t))
    /\ \A p \in ShutStarted : WF_vars(WorkerStep(p))

\* One caller that starts and stops the configured echo server, where the
\* calls that signal, await and kill the process may raise
InitStop == InitWith({1}, {"echo"})

NextStop ==
    \/ \E t \in DOMAIN th, n \in Names : StartCheck(t, n)
    \/ \E t \in DOMAIN th : StartSpawn(t)
    \/ \E t \in DOMAIN th : StartRegister(t)
    \/ \E t \in DOMAIN th : StartSubmit(t)
    \/ \E t \in DOMAIN th : StartInit(t)
    \/ \E t \in DOMAIN th, n \in Names : StopCheck(t, n)
    \/ \E t \in DOMAIN th, n \in Names : StopTerminateRaises(t, n)
    \/ \E t \in DOMAIN th : StopWait(t)
    \/ \E t \in DOMAIN th : StopWaitRaises(t)
    \/ \E t \in DOMAIN th : StopPop(t)
    \/ \E p \in Pids : ReaderEOF(p)
    \/ \E p \in Pids : ChildExit(p)

SpecStop == InitStop /\ [][NextStop]_vars


(* ------------------------------- claims -------------------------------- *)
\* thread t returns from its call in this step
Returns(t) == th[t].pc # "idle" /\ th'[t].pc = "idle"

\* C1: every response rpc_request returns carries the id this invocation
\* allocated, also when calls on the same server overlap.
C1_ResponseCarriesOwnId ==
    [][\A t \in DOMAIN th :
          (th[t].pc = "rpc_wait" /\ Returns(t) /\ th'[t].ret.kind = "resp")
              => th'[t].ret.resp.id = th[t].req_id]_vars

\* the processes of server n that have not exited
Live(n) == {p \in Pids : procs[p].name = n /\ procs[p].alive}

\* C2: at most one live child process per server name, and every live child
\* is the registered handle or in the hands of the start call registering it.
C2_AtMostOneLiveProcess ==
    \A n \in Names :
        /\ Cardinality(Live(n)) <= 1
        /\ \A p \in Live(n) :
              \/ n \in DOMAIN active_processes /\ active_processes[n] = p
              \/ \E t \in DOMAIN th : th[t].pc = "start_reg" /\ th[t].process = p

\* thread t, back from start(n), calls start(n) again in this step
SecondStart(t, n) ==
    /\ th[t].pc = "idle" /\ th[t].op = "start" /\ th[t].name = n
    /\ StartCheck(t, n)

\* the second of two start(n) calls returns true at once and changes nothing
SecondStartIsNoOp(t, n) ==
    /\ th'[t].pc = "idle" /\ th'[t].ret = RetBool(TRUE)
    /\ n \in DOMAIN active_processes
    /\ UNCHANGED shared

\* C3 as claimed: start(N) twice in a row on a configured server returns true
\* both times, and the second call changes nothing.
C3_StartTwiceBothTrue ==
    [][\A t \in DOMAIN th, n \in DOMAIN servers :
          SecondStart(t, n) => th[t].ret = RetBool(TRUE) /\ SecondStartIsNoOp(t, n)]_vars

\* C3, amended: when the first of two start(N) calls in a row returned true,
\* the second returns true, spawns nothing, launches no reader and leaves the
\* handle, the channel and the id sequence of N as they were.
C3_SecondStartAfterSuccess ==
    [][\A t \in DOMAIN th, n \in DOMAIN servers :
          (SecondStart(t, n) /\ th[t].ret = RetBool(TRUE)) => SecondStartIsNoOp(t, n)]_vars

\* a start(n) call has returned true at line 172, without doing anything
C3_Witness ==
    \E t \in DOMAIN th :
        /\ th[t].pc = "idle" /\ th[t].op = "start" /\ th[t].site = 172
        /\ th[t].ret = RetBool(TRUE)
        /\ th[t].name \in DOMAIN active_processes

\* a start(n) or stop(n) call, shutdown's calls of stop included, is under way
InStartOrStop(n) ==
    \E t \in DOMAIN th :
        /\ th[t].name = n
        /\ th[t].pc \in {"start_spawn", "start_reg", "start_submit", "start_init",
                         "stop_wait", "stop_pop"}

\* C4: from a start(N) that returned true until a stop(N) that returns true
\* N is listed as active, and from a stop(N) that returned true until a
\* start(N) that returns true it is not (seen between calls of start and stop).
C4_ListedBetweenStartAndStop ==
    \A n \in Names :
        ~InStartOrStop(n) =>
            /\ outcome[n] = "started" => n \in list_active_servers
            /\ outcome[n] = "stopped" => n \notin list_active_servers

\* C5: a request to an echo server, made when nothing else is under way on
\* that server, gets back its own echo: the response returned has the
\* allocated id and the method sent as its result, and nothing is returned
\* only if the queue is still empty at the deadline.
C5_EchoRoundTrip ==
    [][\A t \in DOMAIN th :
          (th[t].pc = "rpc_wait" /\ th[t].clean /\ Returns(t))
              => IF procs[th[t].q].chan # <<>>
                 THEN /\ th'[t].response.kind = "resp"
                      /\ th'[t].response.resp.id = th[t].req_id
                      /\ th'[t].response.resp.result = th[t].method
                      /\ th'[t].response.resp.error = Absent
                 ELSE th'[t].response = RetNone]_vars

\* rpc_request has returned the echo of its request
C5_Witness ==
    \E t \in DOMAIN th :
        /\ th[t].pc = "idle" /\ th[t].op = "rpc" /\ th[t].site = 384
        /\ th[t].ret.kind = "resp" /\ th[t].ret.resp.result = "ping"
        /\ servers[th[t].name].command = "echo"

\* C6: a caller inside rpc_request never waits for anything but its own
\* deadline: its next step (the write, or the end of the wait) can be taken.
C6_NeverBlocksPastTimeout ==
    \A t \in DOMAIN th :
        th[t].pc \in {"rpc_send", "rpc_wait"} => ENABLED (RpcSend(t) \/ RpcWait(t))

\* C7: rpc_request on a name that is not active returns nothing at once and
\* changes no client state (no write, no id, no wait).
C7_InactiveRpcFailsFast ==
    [][\A t \in DOMAIN th, n \in Names :
          (rpc_request(t, n) /\ n \notin list_active_servers)
              => th'[t].pc = "idle" /\ th'[t].ret = RetNone /\ UNCHANGED shared]_vars

\* rpc_request has returned at line 361 for a server that was stopped
C7_Witness ==
    \E t \in DOMAIN th :
        /\ th[t].pc = "idle" /\ th[t].op = "rpc" /\ th[t].site = 361
        /\ th[t].ret = RetNone
        /\ th[t].name \in DOMAIN servers /\ \E p \in Pids : procs[p].name = th[t].name

\* C8: call_tool on a name that is not listed as active returns nothing.
C8_CallToolInactiveReturnsNothing ==
    [][\A t \in DOMAIN th, n \in Names :
          (call_tool(t, n) /\ n \notin list_active_servers)
              => th'[t].pc = "idle" /\ th'[t].ret = RetNone]_vars

\* call_tool has returned nothing for the name that is not configured
C8_Witness ==
    \E t \in DOMAIN th :
        /\ th[t].pc = "idle" /\ th[t].op = "call_tool" /\ th[t].ret = RetNone
        /\ th[t].name \notin DOMAIN servers

\* C9: when the response call_tool got has an error field, call_tool returns
\* the object wrapping that error, which is not the nothing of no response.
C9_ErrorIsWrapped ==
    \A t \in DOMAIN th :
        (/\ th[t].pc = "idle" /\ th[t].op = "call_tool"
         /\ th[t].response.kind = "resp"
         /\ th[t].response.resp.error # Absent)
            => th[t].ret = RetError(th[t].response.resp.error) /\ th[t].ret # RetNone

\* call_tool has returned the error of a response that has a result too
C9_Witness ==
    \E t \in DOMAIN th :
        /\ th[t].pc = "idle" /\ th[t].op = "call_tool"
        /\ th[t].response.kind = "resp"
        /\ th[t].response.resp.error # Absent
        /\ th[t].response.resp.result # Absent
        /\ th[t].ret.kind = "error"

\* C10: stop on a name that is not active returns true and changes nothing.
C10_StopInactiveIsNoOp ==
    [][\A t \in DOMAIN th, n \in Names :
          (StopCheck(t, n) /\ n \notin list_active_servers)
              => th'[t].pc = "idle" /\ th'[t].ret = RetBool(TRUE) /\ UNCHANGED shared]_vars

\* stop has returned true at line 263 for a server started and stopped before
C10_Witness ==
    \E t \in DOMAIN th :
        /\ th[t].pc = "idle" /\ th[t].op = "stop" /\ th[t].site = 263
        /\ th[t].ret = RetBool(TRUE)
        /\ \E p \in Pids : procs[p].name = th[t].name

\* C11: when stop(N) returns true for a server that was active (line 282), N
\* has no handle, no channel and no id sequence registered, so that
\* rpc_request(N) would fail at line 361; and the start(N) that follows it
\* registers an empty channel of its own and an id sequence at 1.
C11_StopRemovesStartRenews ==
    [][\A t \in DOMAIN th :
          /\ (th[t].pc = "stop_pop" /\ th'[t].pc # "stop_pop") =>
                /\ th'[t].ret = RetBool(TRUE) /\ th'[t].site = 282
                /\ th[t].name \notin DOMAIN active_processes'
                /\ th[t].name \notin DOMAIN response_queues'
                /\ th[t].name \notin DOMAIN id_counters'
                /\ ~RpcReady(th[t].name)' /\ RpcFailSite(th[t].name)' = 361
          /\ (/\ th[t].pc = "start_init" /\ th'[t].pc # "start_init"
              /\ outcome[th[t].name] = "stopped") =>
                /\ th'[t].ret = RetBool(TRUE)
                /\ response_queues'[th[t].name] = th[t].process
                /\ procs'[response_queues'[th[t].name]].chan = <<>>
                /\ procs'[id_counters'[th[t].name]].ctr = 1
                /\ \A u \in DOMAIN th : th[u].q # response_queues'[th[t].name]]_vars

\* a server that was stopped has been started again, by a second process
C11_Witness ==
    \E t \in DOMAIN th :
        /\ th[t].pc = "idle" /\ th[t].op = "start" /\ th[t].site = 213
        /\ Len(procs) = 2 /\ procs[1].name = th[t].name /\ procs[2].name = th[t].name
        /\ response_queues[th[t].name] = 2
        /\ procs[2].ctr = 1

\* the process started last for n has exited and its stdout reader has seen
\* the end of the stream
ExitSeen(n) ==
    \E p \in Pids :
        /\ procs[p].name = n
        /\ \A r \in Pids : procs[r].name = n => r <= p
        /\ ~procs[p].alive
        /\ procs[p].rdout = "done"

\* C12: once the child of N has exited and its reader has seen end-of-stream,
\* also when nobody called stop, the handle is gone: a start(N) called from
\* then on does not return as 'already running', it spawns a new process.
C12_ExitedServerIsRestarted ==
    [][\A t \in DOMAIN th, n \in DOMAIN servers :
          (StartCheck(t, n) /\ ExitSeen(n)) => th'[t].pc = "start_spawn"]_vars

\* C13: the reader tasks of a started server run, however long the other
\* servers keep running: while they wait for a worker of the pool, a worker
\* is free, or is reading the stream of a process that has exited and so
\* becomes free without any server having to stop.
C13_ReadersGetAWorker ==
    \A p \in Pids :
        procs[p].rdout = "queued" =>
            \/ Busy < max_workers
            \/ \E r \in Pids : procs[r].rdout = "running" /\ ~procs[r].alive

\* thread t takes a step of a call on server n
StepsOn(t, n) == th'[t] # th[t] /\ th'[t].name = n

\* C14: traffic is per server. A response rpc_request returns for server N is
\* a line of N's kind of server answering a request of that method, never a
\* line of the other server; and the channel and the id sequence of N change
\* only in a step of a call on N or of the reader of a process of N.
C14_TrafficIsPerServer ==
    [][\A n \in DOMAIN servers :
          /\ \A t \in DOMAIN th :
                (/\ th[t].pc = "rpc_wait" /\ th[t].name = n
                 /\ Returns(t) /\ th'[t].ret.kind = "resp")
                    => th'[t].ret.resp \in
                          Answers(servers[n].command,
                                  Request(th'[t].ret.resp.id, th[t].method))
          /\ (/\ n \in DOMAIN response_queues /\ n \in DOMAIN response_queues'
              /\ response_queues'[n] = response_queues[n]
              /\ procs'[response_queues[n]].chan # procs[response_queues[n]].chan)
                 => \/ \E t \in DOMAIN th : StepsOn(t, n)
                    \/ \E p \in Pids : /\ procs[p].name = n
                                        /\ procs'[p].stdout # procs[p].stdout
          /\ (/\ n \in DOMAIN id_counters /\ n \in DOMAIN id_counters'
              /\ id_counters'[n] = id_counters[n]
              /\ procs'[id_counters[n]].ctr # procs[id_counters[n]].ctr)
                 => \E t \in DOMAIN th : StepsOn(t, n)]_vars

\* a request to the echo server has timed out and its answer is in the echo
\* server's channel when rpc_request returns a response of the faulty server
C14_Witness ==
    \E t \in DOMAIN th :
        /\ th[t].pc = "idle" /\ th[t].op = "rpc" /\ th[t].name = "b" /\ th[t].site = 384
        /\ th[t].ret.kind = "resp" /\ th[t].ret.resp.error # Absent
        /\ "a" \in DOMAIN response_queues
        /\ procs[response_queues["a"]].chan # <<>>

\* C15: shutdown() sets the event first, then calls stop_server for every
\* server that was active at that point, then shuts the executor down and
\* waits for the reader tasks; once it has returned, every stop having
\* returned true, no server is listed as active.
C15_ShutdownOrder ==
    [][\A t \in DOMAIN th :
          (th'[t].op = "shutdown" /\ th'[t] # th[t]) =>
              /\ shutdown_event'
              /\ th[t].pc = "idle" =>
                    /\ th'[t].todo = DOMAIN active_processes
                    /\ UNCHANGED <<active_processes, procs, executor_shutdown>>
              /\ th[t].pc # "idle" => shutdown_event
              /\ (th[t].pc = "shut_loop" /\ th[t].todo # {}) =>
                    /\ th'[t].name \in th[t].todo
                    /\ th'[t].todo = th[t].todo \ {th'[t].name}
                    /\ th'[t].pc = "stop_wait" \/ th'[t].site = 263
                    /\ ~executor_shutdown' \/ executor_shutdown
              /\ executor_shutdown' # executor_shutdown =>
                    th[t].pc = "shut_pool" /\ th[t].todo = {}
              /\ th'[t].pc \in {"shut_pool", "shut_join"} => th'[t].todo = {}
              /\ th'[t].pc = "idle" =>
                    /\ th[t].pc = "shut_join" /\ executor_shutdown
                    /\ \A p \in Pids : procs[p].rdout # "running"
                    /\ list_active_servers' = {}]_vars

\* shutdown() has returned after stopping a server that was running
C15_Witness ==
    \E t \in DOMAIN th :
        /\ th[t].pc = "idle" /\ th[t].op = "shutdown" /\ th[t].site = 454
        /\ outcome["a"] = "stopped" /\ procs # <<>>
        /\ \A p \in Pids : ~procs[p].alive /\ procs[p].rdout = "done"
        /\ list_active_servers = {}

\* C16: start on a name that is not configured returns false at once and
\* changes nothing: no process, no handle, no channel, no id sequence, no
\* reader task.
C16_StartUnconfiguredFails ==
    [][\A t \in DOMAIN th, n \in Names :
          (StartCheck(t, n) /\ n \notin DOMAIN servers)
              => /\ th'[t].pc = "idle" /\ th'[t].ret = RetBool(FALSE)
                 /\ UNCHANGED shared
                 /\ n \notin list_active_servers'
                 /\ n \notin DOMAIN response_queues' /\ n \notin DOMAIN id_counters'
                 /\ \A p \in DOMAIN procs' : procs'[p].name # n]_vars

\* start has returned false at line 168 while a configured server is running
C16_Witness ==
    \E t \in DOMAIN th :
        /\ th[t].pc = "idle" /\ th[t].op = "start" /\ th[t].site = 168
        /\ th[t].ret = RetBool(FALSE)
        /\ th[t].name \notin DOMAIN servers
        /\ list_active_servers # {}

\* C17: when the spawn of the child raises, start returns false (nothing is
\* raised to the caller), no process exists for the call, and N is not
\* registered as active and has no channel and no id sequence.
C17_SpawnFailureIsFalse ==
    [][\A t \in DOMAIN th :
          (th[t].pc = "start_spawn" /\ th'[t].pc \notin {"start_spawn", "start_reg"})
              => /\ th'[t].ret = RetBool(FALSE)
                 /\ UNCHANGED shared
                 /\ th[t].name \notin list_active_servers'
                 /\ th[t].name \notin DOMAIN response_queues'
                 /\ th[t].name \notin DOMAIN id_counters']_vars

\* start has returned false at line 217 and has left no process behind
C17_Witness ==
    \E t \in DOMAIN th :
        /\ th[t].pc = "idle" /\ th[t].op = "start" /\ th[t].site = 217
        /\ th[t].ret = RetBool(FALSE)
        /\ th[t].name \in DOMAIN servers
        /\ th[t].name \notin list_active_servers
        /\ procs = <<>>

\* the thread in state rec is inside the start_server or stop_server call of
\* a loop
InCall(rec) == rec.pc \notin {"idle", "start_all_loop", "stop_all_loop"}

\* the names a running start_all_servers or stop_all_servers has a result
\* for, is calling, or has still to call
Pending(rec) ==
    rec.todo \cup DOMAIN rec.results \cup (IF InCall(rec) THEN {rec.name} ELSE {})

C19_SendWritesOneLineOrFails ==
    [][\A t \in DOMAIN th, n \in Names :
          send_message(t, n) =>
              /\ th'[t].ret.kind = "bool"
              /\ IF n \in DOMAIN active_processes /\ procs[active_processes[n]].alive
                 THEN LET p == active_processes[n]
                      IN  /\ th'[t].ret.val
                          /\ procs'[p].stdin = Append(procs[p].stdin, TestMessage)
                          /\ procs' = [procs EXCEPT ![p].stdin = procs'[p].stdin,
                                                    ![p].sent = procs'[p].sent]
                 ELSE ~th'[t].ret.val /\ procs' = procs]_vars

\* send_message has returned True and the message is the one line in the
\* stdin of the running server
C19_Witness ==
    \E t \in DOMAIN th :
        /\ th[t].pc = "idle" /\ th[t].op = "send" /\ th[t].ret = RetBool(TRUE)
        /\ th[t].name \in DOMAIN active_processes
        /\ procs[active_processes[th[t].name]].alive
        /\ procs[active_processes[th[t].name]].stdin = <<TestMessage>>

\* what a source states for a field: the value it gives, or the default d
\* when it leaves the field out or gives null
Stated(x, d) == IF x.given /\ ~x.null THEN x.val ELSE d

\* what an environment variable holding JSON states: the value its text
\* parses to, or the default d
TextStated(var, d) ==
    IF var.given /\ var.val.json /\ ~var.val.parsed.null
    THEN var.val.parsed.val ELSE d

\* C20: when a source that defines server N is loaded and N is configured
\* already, every field of the configuration of N afterwards is what the
\* loaded source states for it, and the default where it states nothing:
\* command, args, env, node_modules_path and tools of a file entry; command,
\* args, env and node_modules_path of the environment variables, with no tools.
C20_LaterSourceReplacesEntry ==
    [][\A t \in DOMAIN th :
          /\ \A file \in JsonFiles :
                (load_servers_from_json(t, file) /\ file.kind = "ok") =>
                    \A n \in {m \in DOMAIN servers \cap DOMAIN file.servers :
                                   IsObject(file.servers[m])} :
                        LET e == file.servers[n]
                            c == servers'[n]
                        IN  /\ c.command = Stated(e.command, "")
                            /\ c.args = Stated(e.args, <<>>)
                            /\ c.env = Stated(e.env, {})
                            /\ c.node_modules_path = Stated(e.node_modules_path, JNull)
                            /\ c.tools = Stated(e.tools, <<>>)
          /\ \A e \in Environs :
                load_servers_from_env(t, e) =>
                    \A n \in DOMAIN servers \cap e.names :
                        ~NoCommand(e.vars[n]) =>
                            LET v == e.vars[n]
                                c == servers'[n]
                            IN  /\ c.command = v.command.val
                                /\ c.args = TextStated(v.args, <<>>)
                                /\ c.env = TextStated(v.env, {})
                                /\ c.node_modules_path = Stated(v.node_modules, JNull)
                                /\ c.tools = <<>>]_vars

\* the environment has been loaded over a configuration of "a" that came
\* from a file: "a" has the command of the environment and no tools
C20_Witness ==
    \E t \in DOMAIN th :
        /\ th[t].pc = "idle" /\ th[t].op = "load_env" /\ "a" \in th[t].found
        /\ servers["a"].command = "node" /\ servers["a"].tools = <<>>
        /\ servers["a"].args = <<>> /\ servers["a"].env = {}
        /\ "b" \in DOMAIN servers /\ servers["b"].tools = <<"tool_a">>

\* source f defines server n
FileDefines(f, n) ==
    f.kind = "ok" /\ n \in DOMAIN f.servers /\ IsObject(f.servers[n])

\* the environment e defines server n: it lists n and has a command for it
EnvDefines(e, n) ==
    n \in e.names /\ e.vars[n].command.given /\ e.vars[n].command.val # ""

\* configuration c is what file entry e states, field by field
AsFileStates(c, e) ==
    /\ c.command = Stated(e.command, "")
    /\ c.args = Stated(e.args, <<>>)
    /\ c.env = Stated(e.env, {})
    /\ c.node_modules_path = Stated(e.node_modules_path, JNull)
    /\ c.tools = Stated(e.tools, <<>>)

\* configuration c is what the environment variables v state
AsEnvStates(c, v) ==
    /\ c.command = v.command.val
    /\ c.args = TextStated(v.args, <<>>)
    /\ c.env = TextStated(v.env, {})
    /\ c.node_modules_path = Stated(v.node_modules, JNull)
    /\ c.tools = <<>>

\* C21: after initialize_mcp_client, every name defined by a source is
\* configured, with the configuration of the environment if that defines it,
\* else of the explicit file, else of the file of the working directory, else
\* of the home file; a name no source defines is as it was before.
C21_InitializePrecedence ==
    [][\A t \in DOMAIN th :
          (th'[t].op = "initialize" /\ th'[t].pc = "idle") =>
              LET home == th'[t].args[1]
                  local == th'[t].args[2]
                  explicit == th'[t].args[3]
                  e == th'[t].args[4]
              IN  \A n \in Names :
                     IF EnvDefines(e, n)
                     THEN n \in DOMAIN servers' /\ AsEnvStates(servers'[n], e.vars[n])
                     ELSE IF FileDefines(explicit, n)
                     THEN /\ n \in DOMAIN servers'
                          /\ AsFileStates(servers'[n], explicit.servers[n])
                     ELSE IF FileDefines(local, n)
                     THEN /\ n \in DOMAIN servers'
                          /\ AsFileStates(servers'[n], local.servers[n])
                     ELSE IF FileDefines(home, n)
                     THEN /\ n \in DOMAIN servers'
                          /\ AsFileStates(servers'[n], home.servers[n])
                     ELSE /\ n \in DOMAIN servers' <=> n \in DOMAIN servers
                          /\ n \in DOMAIN servers => servers'[n] = servers[n]]_vars

\* all three files define "a" and the home file alone defines "b"; the
\* environment defines neither: "a" has the command of the explicit file and
\* "b" the one of the home file
C21_Witness ==
    \E t \in DOMAIN th :
        /\ th[t].pc = "idle" /\ th[t].op = "initialize"
        /\ FileDefines(th[t].args[1], "a") /\ FileDefines(th[t].args[2], "a")
        /\ FileDefines(th[t].args[3], "a") /\ ~EnvDefines(th[t].args[4], "a")
        /\ FileDefines(th[t].args[1], "b") /\ ~FileDefines(th[t].args[2], "b")
        /\ ~FileDefines(th[t].args[3], "b") /\ ~EnvDefines(th[t].args[4], "b")
        /\ servers["a"].command = "cat" /\ servers["a"].tools = <<>>
        /\ servers["b"].command = "echo" /\ servers["b"].tools = <<"tool_a">>

\* the file is not there, or what it holds is no configuration
Unusable(file) ==
    \/ file.kind # "ok"
    \/ \E n \in DOMAIN file.servers : ~IsObject(file.servers[n])

\* C22: load_servers_from_json of a file that is missing, does not parse, or
\* parses to data of the wrong shape (at the top or in an entry) raises
\* nothing and leaves every configuration as it was.
C22_UnusableFileChangesNothing ==
    [][\A t \in DOMAIN th, file \in JsonFiles :
          (load_servers_from_json(t, file) /\ Unusable(file))
              => th'[t].ret = RetNone /\ servers' = servers]_vars

\* C23: load_servers_from_env raises nothing; a listed name whose command
\* variable is not set or is empty is left as it was, configured or not, and
\* every listed name with a command is configured with that command.
C23_EnvSkipsNameWithoutCommand ==
    [][\A t \in DOMAIN th :
          (th'[t].op = "load_env" /\ th'[t].pc = "idle") =>
              LET e == th'[t].args[1]
              IN  /\ th'[t].ret = RetNone
                  /\ \A n \in e.names :
                        IF EnvDefines(e, n)
                        THEN /\ n \in DOMAIN servers'
                             /\ servers'[n].command = e.vars[n].command.val
                        ELSE /\ n \in DOMAIN servers' <=> n \in DOMAIN servers
                             /\ n \in DOMAIN servers => servers'[n] = servers[n]]_vars

\* the environment lists both names and has an empty command for "a", which
\* a file has configured, and a command for "b", which was not configured
C23_Witness ==
    \E t \in DOMAIN th :
        /\ th[t].pc = "idle" /\ th[t].op = "load_env"
        /\ th[t].args[1].names = {"a", "b"}
        /\ th[t].args[1].vars["a"].command = Given("")
        /\ th[t].found = {"a"}
        /\ servers["a"].tools = <<"tool_a">>
        /\ "b" \in DOMAIN servers /\ servers["b"].command = "node"

\* C24: discover_tools(N) on a server whose configuration declares tools
\* returns those tools at once, whether N is active or not: no id is
\* allocated, nothing is written to a process and no queue is read.
C24_DeclaredToolsWithoutTraffic ==
    [][\A t \in DOMAIN th, n \in Names :
          (/\ discover_tools(t, n)
           /\ n \in DOMAIN servers /\ servers[n].tools # <<>>)
              => /\ th'[t].pc = "idle"
                 /\ th'[t].ret = RetValue(servers[n].tools)
                 /\ procs' = procs
                 /\ servers' = servers]_vars

\* discover_tools has returned the declared tools of the running server "b",
\* whose id counter is where it started
C24_Witness ==
    \E t \in DOMAIN th :
        /\ th[t].pc = "idle" /\ th[t].op = "discover" /\ th[t].name = "b"
        /\ th[t].ret = RetValue(<<"tool_b">>)
        /\ "b" \in DOMAIN id_counters /\ procs[id_counters["b"]].ctr = 1
        /\ procs[active_processes["b"]].alive

\* the tools/list results that hold a list under "tools", and the names of
\* the strings and of the objects with a name or a tool in each
ListResults == {"tools:[]", "tools:[x,{name:y},{tool:z},{},5]", "tools:[{},5]"}
NamesIn(result) ==
    IF result = "tools:[x,{name:y},{tool:z},{},5]" THEN <<"x", "y", "z">> ELSE <<>>

\* thread t gets the answer to the tools/list request of its discover_tools
\* call in this step, or waits for it in vain
DiscoverAnswered(t) ==
    /\ th[t].pc = "rpc_wait" /\ th[t].op = "discover"
    /\ th'[t].pc = "idle"

\* the answer carries a list under "tools" in its result
ListAnswer(v) == v.kind = "resp" /\ v.resp.result \in ListResults

\* C25 as stated: a tools/list answer whose result holds a tools list makes
\* discover_tools return the names collected from it, the empty sequence when
\* there are none, and discover_tools returns nothing only for another shape
\* of result or a timeout.
C25_ListAlwaysReturnsNames ==
    [][\A t \in DOMAIN th :
          DiscoverAnswered(t)
              => IF ListAnswer(th'[t].response)
                 THEN th'[t].ret = RetValue(NamesIn(th'[t].response.resp.result))
                 ELSE th'[t].ret = RetNone]_vars

\* C25 amended: discover_tools returns the collected names when at least one
\* name was collected, and nothing when the list yields no name, when the
\* result has another shape or when the request timed out.
C25_NamesOrNothing ==
    [][\A t \in DOMAIN th :
          DiscoverAnswered(t)
              => IF /\ ListAnswer(th'[t].response)
                    /\ NamesIn(th'[t].response.resp.result) # <<>>
                 THEN th'[t].ret = RetValue(NamesIn(th'[t].response.resp.result))
                 ELSE th'[t].ret = RetNone]_vars

\* discover_tools has returned nothing on the answer with the empty tools list
C25_Witness ==
    \E t \in DOMAIN th :
        /\ th[t].pc = "idle" /\ th[t].op = "discover" /\ th[t].site = 384
        /\ ListAnswer(th[t].response)
        /\ th[t].response.resp.result = "tools:[]"
        /\ th[t].ret = RetNone

\* the names a running refresh_tools has stored tools for, is asking, or has
\* still to ask
Refreshing(rec) ==
    rec.todo \cup DOMAIN rec.results
        \cup (IF rec.pc \notin {"idle", "refresh_loop"} THEN {rec.name} ELSE {})

\* C26: refresh_tools sets out with the names active when it is called and
\* neither drops nor adds one; what list_tools returned for a name, or the
\* empty list when it returned nothing, is stored as the tools of that
\* server's configuration and under that name in the map; the tools of every
\* other server stay as they are; the map is returned when no name is left,
\* its keys are those names and its values the tools the configurations hold.
C26_RefreshStoresPerActiveServer ==
    [][\A t \in DOMAIN th :
          LET a == th[t]
              b == th'[t]
          IN  /\ (a.pc = "idle" /\ b.pc = "refresh_loop")
                    => /\ Refreshing(b) = DOMAIN active_processes
                       /\ b.results = <<>>
                       /\ servers' = servers
              /\ (a.op = "refresh" /\ a.pc # "idle" /\ b # a)
                    => /\ \A n \in DOMAIN servers \ Refreshing(a) :
                             servers'[n].tools = servers[n].tools
                       /\ IF b.pc = "idle"
                          THEN /\ a.todo = {}
                               /\ b.ret.kind = "map"
                               /\ DOMAIN b.ret.val = Refreshing(a)
                               /\ \A n \in DOMAIN b.ret.val :
                                     servers'[n].tools = b.ret.val[n]
                          ELSE /\ Refreshing(b) = Refreshing(a)
                               /\ a.pc = "refresh_store" =>
                                     LET tools == IF a.ret.kind = "value"
                                                  THEN a.ret.val ELSE <<>>
                                     IN  /\ b.results = Put(a.results, a.name, tools)
                                         /\ servers'[a.name].tools = tools]_vars

\* refresh_tools has returned with "a" alone active: discovery yielded
\* nothing for it, and the declared tools of "b" are as they were
C26_Witness ==
    \E t \in DOMAIN th :
        /\ th[t].pc = "idle" /\ th[t].op = "refresh" /\ th[t].site = 437
        /\ DOMAIN active_processes = {"a"}
        /\ th[t].ret = RetMap([n \in {"a"} |-> <<>>])
        /\ servers["a"].tools = <<>>
        /\ servers["b"].tools = <<"tool_b">>

\* the line is the text of a JSON object with an id and a result or an error
Enqueueable(line) ==
    /\ line.shape = "object"
    /\ line.hasid
    /\ (line.result # Absent \/ line.error # Absent)

\* C27: a queue grows only by the line that a stdout reader of the same
\* server takes from its pipe in that step, and only when that line is a JSON
\* object with an id and a result or an error; no stderr pipe is read in such
\* a step; so every line in a queue, and every response rpc_request returns,
\* is such an object, and none is a line that was written to stderr.
C27_OnlyResponsesFromStdout ==
    [][/\ \A q \in DOMAIN procs :
             Len(procs'[q].chan) > Len(procs[q].chan) =>
                \E p \in DOMAIN procs :
                   /\ procs[p].name = procs[q].name
                   /\ procs[p].stdout # <<>>
                   /\ Enqueueable(Head(procs[p].stdout))
                   /\ procs'[p].stdout = Tail(procs[p].stdout)
                   /\ procs'[q].chan = Append(procs[q].chan, Head(procs[p].stdout))
                   /\ \A r \in DOMAIN procs : procs'[r].stderr = procs[r].stderr
       /\ \A q \in DOMAIN procs : \A i \in 1..Len(procs[q].chan) :
             /\ Enqueueable(procs[q].chan[i])
             /\ procs[q].chan[i].result # "on_stderr"
       /\ \A t \in DOMAIN th :
             th'[t].response.kind = "resp" =>
                /\ Enqueueable(th'[t].response.resp)
                /\ th'[t].response.resp.result # "on_stderr"]_vars

\* the running stdout reader of "a" has taken the one line the server wrote
\* unasked from the pipe and has put nothing in the queue; no request was made
C27_Witness ==
    \E p \in Pids :
        /\ "a" \in DOMAIN response_queues /\ response_queues["a"] = p
        /\ procs[p].alive /\ procs[p].mode = "lines"
        /\ procs[p].rdout = "running"
        /\ procs[p].emitted = 1
        /\ procs[p].stdout = <<>>
        /\ procs[p].chan = <<>>
        /\ procs[p].ctr = 1

\* thread t waits for the answer to the request it wrote
Awaiting(t) == th[t].pc = "rpc_wait"

\* C28: the counter of a lifetime starts at 1 and every allocation takes its
\* value and moves it up by one; no two requests that were written to the
\* same process of a server and are both awaiting their answer carry the same
\* id.
C28_IdsDistinctPerLifetime ==
    /\ \A p \in Pids : procs[p].ctr >= 1
    /\ \A t, u \in DOMAIN th :
          (/\ t # u
           /\ Awaiting(t) /\ Awaiting(u)
           /\ th[t].process = th[u].process)
              => th[t].req_id # th[u].req_id

\* C30: a stop_server call that finds the server active first sends the
\* termination signal to the registered process, which is all this step does
\* to it; the call ends the process by force only when the process has that
\* signal pending and has not exited; the handle is removed only in a step
\* after which the process has exited; and when the call returns True at
\* line 282 the process it stopped has exited.
C30_TerminateThenKillThenRemove ==
    [][\A t \in DOMAIN th :
          LET a == th[t]
              b == th'[t]
          IN  /\ (a.pc # "stop_wait" /\ b.pc = "stop_wait")
                    => /\ b.name \in DOMAIN active_processes
                       /\ b.process = active_processes[b.name]
                       /\ procs'[b.process].sigterm = procs[b.process].alive
                       /\ procs'[b.process].alive = procs[b.process].alive
                       /\ active_processes' = active_processes
              /\ (a.pc = "stop_wait" /\ b # a)
                    => /\ (procs[a.process].alive /\ ~procs'[a.process].alive)
                             => procs[a.process].sigterm
                       /\ active_processes' # active_processes
                             => /\ active_processes[a.name] = a.process
                                /\ active_processes' = Pop(active_processes, a.name)
                                /\ ~procs'[a.process].alive
              /\ (a.pc = "stop_pop" /\ b # a)
                    => /\ b.ret = RetBool(TRUE) /\ b.site = 282
                       /\ ~procs'[a.process].alive
                       /\ a.name \notin DOMAIN active_processes']_vars

\* stop_server has returned True at line 282 for the one process of "a",
\* which has exited and whose handle is gone
C30_Witness ==
    \E t \in DOMAIN th :
        /\ th[t].pc = "idle" /\ th[t].op = "stop" /\ th[t].name = "a"
        /\ th[t].site = 282 /\ th[t].ret = RetBool(TRUE)
        /\ Len(procs) = 1 /\ ~procs[1].alive /\ ~procs[1].sigterm
        /\ "a" \notin DOMAIN active_processes

\* a reader task of some process is running or waits for a worker
ReadersLeft == \E p \in Pids : procs[p].rdout \in {"running", "queued"}

\* some caller is inside shutdown()
InShutdown == \E t \in DOMAIN th : th[t].op = "shutdown" /\ th[t].pc # "idle"

\* some caller has returned from shutdown() (line 454)
ShutdownReturned ==
    \E t \in DOMAIN th : th[t].op = "shutdown" /\ th[t].pc = "idle" /\ th[t].site = 454

\* C29: once the shutdown event is set, the time comes when no reader task
\* is running or waiting for a worker any more, and a caller that is inside
\* shutdown() returns from it.
C29_ShutdownEndsReaders ==
    /\ (shutdown_event ~> ~ReadersLeft)
    /\ (InShutdown ~> ShutdownReturned)

\* shutdown() has returned: no reader task of the six processes is left, the
\* one that waited for a worker included, and every process has exited
C29_Witness ==
    /\ ShutdownReturned
    /\ Len(procs) = 6
    /\ \A p \in Pids : procs[p].rdout = "done" /\ ~procs[p].alive

\* C31: a stop_server call returns True or False, never an exception; when
\* it returns False because signalling, awaiting or killing the process
\* raised, the handle, the queue and the counter of the name are registered
\* afterwards exactly as before, and the name is still listed as active.
C31_StopCatchesAndKeepsRegistered ==
    [][\A t \in DOMAIN th :
          LET a == th[t]
              b == th'[t]
          IN  (b.op = "stop" /\ b.pc = "idle" /\ b # a)
                 => /\ b.ret.kind = "bool"
                    /\ (~b.ret.val /\ b.site = 286)
                          => /\ b.name \in DOMAIN active_processes'
                             /\ active_processes' = active_processes
                             /\ response_queues' = response_queues
                             /\ id_counters' = id_counters]_vars

\* stop_server has returned False at line 286 after the signal went out: the
\* server is still listed, with its queue and counter
C31_Witness ==
    \E t \in DOMAIN th :
        /\ th[t].pc = "idle" /\ th[t].op = "stop" /\ th[t].site = 286
        /\ th[t].ret = RetBool(FALSE)
        /\ th[t].name \in DOMAIN active_processes
        /\ th[t].name \in DOMAIN response_queues
        /\ th[t].name \in DOMAIN id_counters
        /\ procs[active_processes[th[t].name]].sigterm

\* C32: with one caller, whose calls never overlap, every response that the
\* wait of rpc_request or call_tool takes from the queue carries the id of
\* that very request.
C32_SequentialResponseIsOwn ==
    [][\A t \in DOMAIN th :
          (/\ th[t].pc = "rpc_wait"
           /\ th'[t].pc = "idle"
           /\ th'[t].response.kind = "resp")
              => th'[t].response.resp.id = th[t].req_id]_vars

\* C33: the queue created with a process of a server grows only by a line
\* taken from the stdout pipe of that same process, never by a line that an
\* earlier process of the server wrote.
C33_QueueFedByOwnProcess ==
    [][\A q \in DOMAIN procs :
          Len(procs'[q].chan) > Len(procs[q].chan)
              => /\ procs[q].stdout # <<>>
                 /\ procs'[q].stdout = Tail(procs[q].stdout)
                 /\ procs'[q].chan = Append(procs[q].chan, Head(procs[q].stdout))]_vars

\* C34: in every state, each server listed as active has a response queue,
\* an id counter and a counter lock registered.
C34_ActiveHasChannel ==
    \A n \in list_active_servers :
        /\ n \in DOMAIN response_queues
        /\ n \in DOMAIN id_counters
        /\ n \in DOMAIN counter_locks

\* the stdout reader of process p takes a line from the pipe in this step
ReaderTakes(p) ==
    /\ procs[p].rdout = "running" /\ procs'[p].rdout = "running"
    /\ procs[p].stdout # <<>>
    /\ procs'[p].stdout = Tail(procs[p].stdout)

\* C35: when the stdout reader of the registered process of a server takes a
\* response line from the pipe, the response queue of that server exists.
C35_QueueBeforeReaders ==
    [][\A p \in DOMAIN procs :
          (/\ ReaderTakes(p)
           /\ Enqueueable(Head(procs[p].stdout))
           /\ procs[p].name \in DOMAIN active_processes
           /\ active_processes[procs[p].name] = p)
              => procs[p].name \in DOMAIN response_queues]_vars

\* C36: whenever a start_server call returns False, the name is not listed
\* as active afterwards and no process of that server is running.
C36_FailedStartLeavesNothing ==
    [][\A t \in DOMAIN th :
          (/\ th'[t] # th[t]
           /\ th'[t].op = "start" /\ th'[t].pc = "idle"
           /\ th'[t].ret = RetBool(FALSE))
              => /\ th'[t].name \notin DOMAIN active_processes'
                 /\ \A p \in DOMAIN procs' :
                       procs'[p].name = th'[t].name => ~procs'[p].alive]_vars

\* C37: a stop_server call that found its server active (it passed the test
\* of line 261 and signalled the process) returns True, with the server's
\* handle, queue and counter all removed, whatever another stop_server call on
\* the same server does in the meantime.
C37_ConcurrentStopsBothTrue ==
    [][\A t \in DOMAIN th :
          (/\ th[t].op = "stop" /\ th[t].pc # "idle"
           /\ th'[t].pc = "idle")
              => /\ th'[t].ret = RetBool(TRUE)
                 /\ th'[t].name \notin DOMAIN active_processes'
                 /\ th'[t].name \notin DOMAIN response_queues'
                 /\ th'[t].name \notin DOMAIN id_counters']_vars

\* C38: a call_tool call for which rpc_request handed back a response object
\* taken from the queue does not return None, whatever that response carries.
C38_DequeuedResponseIsReturned ==
    \A t \in DOMAIN th :
        (/\ th[t].op = "call_tool" /\ th[t].pc = "idle"
         /\ th[t].response.kind = "resp")
            => th[t].ret # RetNone

\* C39: a caller that rpc_request hands a response to has taken the oldest
\* item of its queue, that item has left the queue in the same step, and no
\* other caller has moved in that step: no item reaches two callers.
C39_ResponseTakenOnce ==
    [][\A t \in DOMAIN th :
          (/\ Awaiting(t)
           /\ th'[t].pc = "idle" /\ th'[t].response.kind = "resp")
              => /\ procs[th[t].q].chan # <<>>
                 /\ th'[t].response.resp = Head(procs[th[t].q].chan)
                 /\ procs'[th[t].q].chan \in {Tail(procs[th[t].q].chan), <<>>}
                 /\ \A u \in DOMAIN th \ {t} : th'[u] = th[u]]_vars

\* two callers of the same server: one has been handed the response to
\* request 1, and the other, waiting for the answer to request 2 on the same
\* process, finds the queue empty
C39_Witness ==
    \E t, u \in DOMAIN th :
        /\ t # u
        /\ th[t].op = "rpc" /\ th[t].pc = "idle" /\ th[t].site = 384
        /\ th[t].response.kind = "resp"
        /\ th[u].op = "rpc" /\ Awaiting(u) /\ th[u].name = th[t].name
        /\ th[t].response.resp.id = 1 /\ th[u].req_id = 2
        /\ th[u].process = th[u].q
        /\ procs[th[u].q].chan = <<>>

====
